---- MODULE Spec2Model ----
(***************************************************************************)
(* CDBL fast-flag engine (src/src/fastflags.py): the client's settings     *)
(* file IxpSettings.json, the tool's ledger fastflags_tracking.json and    *)
(* the operations that rewrite them.                                       *)
(*                                                                         *)
(* A file write either succeeds or fails at open() and leaves the file as  *)
(* it was; the outcome of every write an operation attempts is an input of *)
(* the operation.  datetime.now().isoformat() is the token "ts".           *)
(***************************************************************************)
EXTENDS Integers, Sequences, FiniteSets, TLC

VARIABLES
  ixp,       \* IxpSettings.json: [exists, data, readonly]
  tracking,  \* fastflags_tracking.json: [exists, data]
  call,      \* the last call: [op, flags, all, names]
  result,    \* the record the last call returned
  io,        \* the file writes the last call attempted, in order
  faulted,   \* a call of this run has had a write fail
  first,     \* a session's record: the settings file before its first call
  session,   \* a session's record: the flags its calls asked the settings file to take, in order
  cache,     \* the client's asset cache: [exists, files, backups]
  assets,    \* the extracted replacement assets: [exists, files]
  orig,      \* per cache file, its content just before it was first overwritten
  placed,    \* the cache files that place_asset_in_cache created
  now,       \* time.time(), in ticks
  apicache,  \* an APICache's _cache: its entries, in the order of insertion
  limiter,   \* api_rate_limiter: [last_request]
  threads,   \* per thread in wait_if_needed, its position and its locals
  returns,   \* the times at which wait_if_needed returned, latest last
  procs      \* per concurrent caller of apply_fastflags, its position and its locals

\* The state of src/src/cache.py and of concurrent callers.
others == <<now, apicache, limiter, threads, returns, procs>>

vars == <<ixp, tracking, call, result, io, faulted, first, session, cache, assets, orig, placed, others>>

\* No API cache entry, no thread in the rate limiter, no concurrent caller.
AtRest ==
  /\ now = 0
  /\ apicache = <<>>
  /\ limiter = [last_request |-> 0]
  /\ threads = <<>>
  /\ returns = <<>>
  /\ procs = <<>>

(* ------------------------------ bounds --------------------------------- *)

\* Longest flag_names list handed to remove_fastflags.
MaxNames == 2

\* Largest fast_flags dictionary handed to apply_fastflags.
MaxFlags == 2

\* Longest recorded session of apply_fastflags calls.
MaxCalls == 2

(* ------------------------------ values --------------------------------- *)

\* The flag both named fixes use (fastflags.py:402, 537).
SKYBOX_FLAG == "FFlagHttpUseRbxStorage10"

NO_ARMS_FLAG == "FFlagHttpUseRbxStorage10"

\* Flag names: the fixes' flag and another.
Keys == {SKYBOX_FLAG, "FFlagA"}

\* Flag values are strings: the fixes' flag holds the fixes' value or another
\* one, the other flag one value.
ValuesOf(k) == IF k = SKYBOX_FLAG THEN {"false", "true"} ELSE {"true"}

EmptyMap == [k \in {} |-> ""]

\* Every dictionary of flag name -> value.
FlagSets == UNION {{F \in [D -> {"false", "true"}] : \A k \in D : F[k] \in ValuesOf(k)} : D \in SUBSET Keys}

\* Merge that keeps an entry f already has (dict.setdefault).
Merge_KeepsOld(f, g) == [k \in DOMAIN f \cup DOMAIN g |-> IF k \in DOMAIN f THEN f[k] ELSE g[k]]

\* dict.update: g's entries override f's, f's other entries are kept.
Merge(f, g) == [k \in DOMAIN f \cup DOMAIN g |-> IF k \in DOMAIN g THEN g[k] ELSE f[k]]

\* del d[k].
Del(f, k) == [j \in DOMAIN f \ {k} |-> f[j]]

\* list(d.keys()): the keys of a dictionary as a list.
RECURSIVE KeyList(_)
KeyList(S) == IF S = {} THEN <<>> ELSE LET k == CHOOSE x \in S : TRUE IN <<k>> \o KeyList(S \ {k})

\* [name for name in flag_names if name in applied].
RECURSIVE Filter(_, _)
Filter(names, S) ==
  IF names = <<>> THEN <<>>
  ELSE (IF Head(names) \in S THEN <<Head(names)>> ELSE <<>>) \o Filter(Tail(names), S)

\* A named-fix sub-record of the ledger; present = FALSE: the key is missing.
NoFix == [present |-> FALSE, active |-> FALSE, flag_applied |-> ""]

\* The document load_tracking_data returns when there is no readable ledger.
\* backup_created is "absent" until a snapshot sets it.
DefaultTracking ==
  [applied_flags |-> EmptyMap, last_modified |-> "null", backup |-> EmptyMap,
   backup_created |-> "absent", skybox_fix |-> NoFix, no_arms_fix |-> NoFix]

AbsentIxp == [exists |-> FALSE, data |-> EmptyMap, readonly |-> FALSE]

AbsentTracking == [exists |-> FALSE, data |-> DefaultTracking]

Res(op, success, count, message, errors) ==
  [op |-> op, success |-> success, count |-> count, message |-> message, errors |-> errors]

W(file, ok) == [file |-> file, ok |-> ok]

(* ---------------------------- file access ------------------------------ *)

load_tracking_data(t) == IF t.exists THEN t.data ELSE DefaultTracking

\* The ledger after save_tracking_data(td) whose write succeeds (ok) or not.
save_tracking_data(t, td, ok) ==
  IF ok THEN [exists |-> TRUE, data |-> [td EXCEPT !.last_modified = "ts"]] ELSE t

load_ixp_settings(f) == IF f.exists THEN f.data ELSE EmptyMap

\* save_ixp_settings without os.makedirs and the file's creation: a missing
\* file stays missing.
save_ixp_settings_ExistingOnly(f, data, set_readonly, ok) ==
  IF f.exists /\ ok
  THEN [exists |-> TRUE, data |-> data, readonly |-> set_readonly]
  ELSE [f EXCEPT !.readonly = FALSE]

\* save_ixp_settings without remove_file_readonly: open(ixp_path, 'w') is
\* refused on a file still marked read-only.
save_ixp_settings_NoClear(f, data, set_readonly, ok) ==
  LET g == f
  IN IF ok /\ ~g.readonly THEN [exists |-> TRUE, data |-> data, readonly |-> set_readonly]
     ELSE g

\* The settings file after save_ixp_settings(data, set_readonly): the read-only
\* attribute of an existing file is cleared first, the file is written
\* (open(ixp_path, 'w') is refused on a read-only file), and it is marked
\* read-only when asked.
save_ixp_settings(f, data, set_readonly, ok) ==
  LET g == IF f.exists THEN [f EXCEPT !.readonly = FALSE] ELSE f
  IN IF ok /\ ~g.readonly THEN [exists |-> TRUE, data |-> data, readonly |-> set_readonly]
     ELSE g

(* ----------------------------- operations ------------------------------ *)

\* SnapshotIfNone without the "if we haven't already".
SnapshotIfNone_Always(td, cur) == [td EXCEPT !.backup = cur, !.backup_created = "ts"]

\* "Create backup of current state if we haven't already" (apply_fastflags).
SnapshotIfNone(td, cur) ==
  IF DOMAIN td.backup = {}
  THEN [td EXCEPT !.backup = cur, !.backup_created = "ts"]
  ELSE td

apply_fastflags(f, t, F, sOk, tOk) ==
  LET cur == load_ixp_settings(f)
      td0 == load_tracking_data(t)
      td1 == SnapshotIfNone(td0, cur)
      cur2 == Merge(cur, F)
      td2 == [td1 EXCEPT !.applied_flags = Merge(@, F)]
      n == Cardinality(DOMAIN F)
      f2 == save_ixp_settings(f, cur2, TRUE, sOk)
  IN IF DOMAIN F = {}
     THEN [ixp |-> f, tracking |-> t, io |-> <<>>,
           result |-> Res("apply_fastflags", FALSE, 0, "No fastflags provided to apply",
                          <<"No fastflags provided to apply">>)]
     ELSE IF ~sOk
     THEN [ixp |-> f2, tracking |-> t, io |-> <<W("settings", FALSE)>>,
           result |-> Res("apply_fastflags", FALSE, 0, "Failed to save fastflags to IxpSettings.json",
                          <<"Failed to save fastflags to IxpSettings.json">>)]
     ELSE IF tOk
     THEN [ixp |-> f2, tracking |-> save_tracking_data(t, td2, TRUE),
           io |-> <<W("settings", TRUE), W("ledger", TRUE)>>,
           result |-> Res("apply_fastflags", TRUE, n, "Successfully applied fastflags to Roblox", <<>>)]
     ELSE [ixp |-> f2, tracking |-> save_tracking_data(t, td2, FALSE),
           io |-> <<W("settings", TRUE), W("ledger", FALSE)>>,
           result |-> Res("apply_fastflags", TRUE, n, "Applied fastflags (tracking failed)",
                          <<"Warning: Fastflags applied but tracking data could not be saved">>)]

\* RemoveLoop without "del tracking_data['applied_flags'][flag_name]".
RECURSIVE RemoveLoop_KeepsApplied(_, _, _, _)
RemoveLoop_KeepsApplied(names, cur, applied, count) ==
  IF names = <<>> THEN [cur |-> cur, applied |-> applied, count |-> count]
  ELSE LET k == Head(names)
       IN RemoveLoop_KeepsApplied(Tail(names),
                                  IF k \in DOMAIN cur THEN Del(cur, k) ELSE cur,
                                  applied,
                                  IF k \in DOMAIN cur THEN count + 1 ELSE count)

\* RemoveLoop without "del current_settings[flag_name]".
RECURSIVE RemoveLoop_KeepsLive(_, _, _, _)
RemoveLoop_KeepsLive(names, cur, applied, count) ==
  IF names = <<>> THEN [cur |-> cur, applied |-> applied, count |-> count]
  ELSE LET k == Head(names)
       IN RemoveLoop_KeepsLive(Tail(names),
                               cur,
                               IF k \in DOMAIN applied THEN Del(applied, k) ELSE applied,
                               IF k \in DOMAIN cur THEN count + 1 ELSE count)

\* The loop of remove_fastflags over flags_to_remove: the settings, the
\* applied flags and removed_count after it.
RECURSIVE RemoveLoop(_, _, _, _)
RemoveLoop(names, cur, applied, count) ==
  IF names = <<>> THEN [cur |-> cur, applied |-> applied, count |-> count]
  ELSE LET k == Head(names)
       IN RemoveLoop(Tail(names),
                     IF k \in DOMAIN cur THEN Del(cur, k) ELSE cur,
                     IF k \in DOMAIN applied THEN Del(applied, k) ELSE applied,
                     IF k \in DOMAIN cur THEN count + 1 ELSE count)

\* FlagsToRemove without the "if name in tracking_data['applied_flags']".
FlagsToRemove_Unfiltered(all, names, applied) ==
  IF all THEN KeyList(DOMAIN applied) ELSE names

\* flags_to_remove: every applied flag for None (all), else the named ones
\* that are applied.
FlagsToRemove(all, names, applied) ==
  IF all THEN KeyList(DOMAIN applied) ELSE Filter(names, DOMAIN applied)

remove_fastflags(f, t, all, names, sOk, tOk) ==
  LET cur == load_ixp_settings(f)
      td0 == load_tracking_data(t)
      todo == FlagsToRemove(all, names, td0.applied_flags)
      r == RemoveLoop(todo, cur, td0.applied_flags, 0)
      td2 == [td0 EXCEPT !.applied_flags = r.applied]
      f2 == save_ixp_settings(f, r.cur, TRUE, sOk)
  IN IF DOMAIN td0.applied_flags = {}
     THEN [ixp |-> f, tracking |-> t, io |-> <<>>,
           result |-> Res("remove_fastflags", FALSE, 0, "No CDBL fastflags found to remove", <<>>)]
     ELSE IF todo = <<>>
     THEN [ixp |-> f, tracking |-> t, io |-> <<>>,
           result |-> Res("remove_fastflags", FALSE, 0, "No matching CDBL fastflags found to remove", <<>>)]
     ELSE IF ~sOk
     THEN [ixp |-> f2, tracking |-> t, io |-> <<W("settings", FALSE)>>,
           result |-> Res("remove_fastflags", FALSE, 0, "Failed to save updated settings to IxpSettings.json",
                          <<"Failed to save updated settings to IxpSettings.json">>)]
     ELSE IF tOk
     THEN [ixp |-> f2, tracking |-> save_tracking_data(t, td2, TRUE),
           io |-> <<W("settings", TRUE), W("ledger", TRUE)>>,
           result |-> Res("remove_fastflags", TRUE, r.count, "Successfully removed CDBL fastflags", <<>>)]
     ELSE [ixp |-> f2, tracking |-> save_tracking_data(t, td2, FALSE),
           io |-> <<W("settings", TRUE), W("ledger", FALSE)>>,
           result |-> Res("remove_fastflags", TRUE, r.count, "Removed fastflags (tracking update failed)",
                          <<"Warning: Fastflags removed but tracking data could not be updated">>)]

NO_BACKUP_MESSAGE == "No backup found to restore from. Please run CDBL setup first to create an initial backup."

\* ClearTracking without "tracking_data['backup'] = {}".
ClearTracking_KeepsBackup(td) == [td EXCEPT !.applied_flags = EmptyMap]

\* "Clear tracking data" (restore_original_settings).
ClearTracking(td) == [td EXCEPT !.applied_flags = EmptyMap, !.backup = EmptyMap]

\* "Restore from backup": what restore_original_settings does once it has
\* found a backup.
RestoreFromBackup(f, t, sOk, tOk) ==
  LET td0 == load_tracking_data(t)
      f2 == save_ixp_settings(f, td0.backup, TRUE, sOk)
      td2 == ClearTracking(td0)
  IN IF ~sOk
     THEN [ixp |-> f2, tracking |-> t, io |-> <<W("settings", FALSE)>>,
           result |-> Res("restore_original_settings", FALSE, 0, "Failed to restore original settings",
                          <<"Failed to restore original settings">>)]
     ELSE IF tOk
     THEN [ixp |-> f2, tracking |-> save_tracking_data(t, td2, TRUE),
           io |-> <<W("settings", TRUE), W("ledger", TRUE)>>,
           result |-> Res("restore_original_settings", TRUE, 0, "Successfully restored original Roblox settings", <<>>)]
     ELSE [ixp |-> f2, tracking |-> save_tracking_data(t, td2, FALSE),
           io |-> <<W("settings", TRUE), W("ledger", FALSE)>>,
           result |-> Res("restore_original_settings", TRUE, 0, "Settings restored (tracking clear failed)",
                          <<"Warning: Settings restored but tracking data could not be cleared">>)]

\* restore_original_settings without its "No backup found" return.
restore_original_settings_NoGuard(f, t, sOk, tOk) == RestoreFromBackup(f, t, sOk, tOk)

restore_original_settings(f, t, sOk, tOk) ==
  IF DOMAIN load_tracking_data(t).backup = {}
  THEN [ixp |-> f, tracking |-> t, io |-> <<>>,
        result |-> Res("restore_original_settings", FALSE, 0, NO_BACKUP_MESSAGE, <<NO_BACKUP_MESSAGE>>)]
  ELSE RestoreFromBackup(f, t, sOk, tOk)

\* "Create backup of current state if we haven't already" (apply_skybox_fastflag):
\* no backup_created is written here.
SkyboxSnapshotIfNone(td, cur) ==
  IF DOMAIN td.backup = {} THEN [td EXCEPT !.backup = cur] ELSE td

\* apply_skybox_fastflag saving the ledger although the settings write failed.
apply_skybox_fastflag_LedgerAnyway(f, t, sOk, tOk) ==
  LET cur == load_ixp_settings(f)
      td0 == load_tracking_data(t)
      td1 == SkyboxSnapshotIfNone(td0, cur)
      cur2 == Merge(cur, [k \in {SKYBOX_FLAG} |-> "false"])
      td2 == [td1 EXCEPT !.applied_flags = Merge(@, [k \in {SKYBOX_FLAG} |-> "false"]),
                         !.skybox_fix = [present |-> TRUE, active |-> TRUE, flag_applied |-> SKYBOX_FLAG]]
      f2 == save_ixp_settings(f, cur2, TRUE, sOk)
  IN [ixp |-> f2, tracking |-> save_tracking_data(t, td2, tOk),
      io |-> <<W("settings", sOk), W("ledger", tOk)>>,
      result |-> Res("apply_skybox_fastflag", sOk, 0,
                     IF sOk THEN "Skybox fix FastFlag applied successfully"
                     ELSE "Failed to save skybox FastFlag to IxpSettings.json",
                     IF sOk THEN <<>> ELSE <<"Failed to save skybox FastFlag to IxpSettings.json">>)]

apply_skybox_fastflag(f, t, sOk, tOk) ==
  LET cur == load_ixp_settings(f)
      td0 == load_tracking_data(t)
      td1 == SkyboxSnapshotIfNone(td0, cur)
      cur2 == Merge(cur, [k \in {SKYBOX_FLAG} |-> "false"])
      td2 == [td1 EXCEPT !.applied_flags = Merge(@, [k \in {SKYBOX_FLAG} |-> "false"]),
                         !.skybox_fix = [present |-> TRUE, active |-> TRUE, flag_applied |-> SKYBOX_FLAG]]
      f2 == save_ixp_settings(f, cur2, TRUE, sOk)
  IN IF ~sOk
     THEN [ixp |-> f2, tracking |-> t, io |-> <<W("settings", FALSE)>>,
           result |-> Res("apply_skybox_fastflag", FALSE, 0, "Failed to save skybox FastFlag to IxpSettings.json",
                          <<"Failed to save skybox FastFlag to IxpSettings.json">>)]
     ELSE IF tOk
     THEN [ixp |-> f2, tracking |-> save_tracking_data(t, td2, TRUE),
           io |-> <<W("settings", TRUE), W("ledger", TRUE)>>,
           result |-> Res("apply_skybox_fastflag", TRUE, 0, "Skybox fix FastFlag applied successfully", <<>>)]
     ELSE [ixp |-> f2, tracking |-> save_tracking_data(t, td2, FALSE),
           io |-> <<W("settings", TRUE), W("ledger", FALSE)>>,
           result |-> Res("apply_skybox_fastflag", TRUE, 0, "Skybox FastFlag applied (tracking failed)",
                          <<"Warning: FastFlag applied but tracking failed">>)]

\* fix.get("flag_applied", "FFlagHttpUseRbxStorage10").
FlagApplied(fix) == IF fix.present THEN fix.flag_applied ELSE SKYBOX_FLAG

remove_skybox_fastflag(f, t, sOk, tOk) ==
  LET cur == load_ixp_settings(f)
      td0 == load_tracking_data(t)
      flag_name == FlagApplied(td0.skybox_fix)
      cur2 == IF flag_name \in DOMAIN cur THEN Del(cur, flag_name) ELSE cur
      td2 == [td0 EXCEPT !.applied_flags = IF flag_name \in DOMAIN @ THEN Del(@, flag_name) ELSE @,
                         !.skybox_fix.active = FALSE]
      f2 == save_ixp_settings(f, cur2, TRUE, sOk)
  IN IF ~td0.skybox_fix.present \/ ~td0.skybox_fix.active
     THEN [ixp |-> f, tracking |-> t, io |-> <<>>,
           result |-> Res("remove_skybox_fastflag", FALSE, 0, "Skybox fix FastFlag is not currently active", <<>>)]
     ELSE IF ~sOk
     THEN [ixp |-> f2, tracking |-> t, io |-> <<W("settings", FALSE)>>,
           result |-> Res("remove_skybox_fastflag", FALSE, 0, "Failed to save updated settings",
                          <<"Failed to save updated settings">>)]
     ELSE IF tOk
     THEN [ixp |-> f2, tracking |-> save_tracking_data(t, td2, TRUE),
           io |-> <<W("settings", TRUE), W("ledger", TRUE)>>,
           result |-> Res("remove_skybox_fastflag", TRUE, 0, "Skybox fix FastFlag removed successfully", <<>>)]
     ELSE [ixp |-> f2, tracking |-> save_tracking_data(t, td2, FALSE),
           io |-> <<W("settings", TRUE), W("ledger", FALSE)>>,
           result |-> Res("remove_skybox_fastflag", TRUE, 0, "Skybox FastFlag removed (tracking failed)",
                          <<"Warning: FastFlag removed but tracking update failed">>)]

\* apply_no_arms_fastflag: apply_fastflags({flag: "false"}), then the ledger is
\* loaded again, the fix is marked active and the ledger is saved (tOk2).
apply_no_arms_fastflag(f, t, sOk, tOk, tOk2) ==
  LET a == apply_fastflags(f, t, [k \in {NO_ARMS_FLAG} |-> "false"], sOk, tOk)
      td0 == load_tracking_data(a.tracking)
      td1 == [td0 EXCEPT !.no_arms_fix = [present |-> TRUE, active |-> TRUE, flag_applied |-> NO_ARMS_FLAG]]
  IN IF ~a.result.success
     THEN [ixp |-> a.ixp, tracking |-> a.tracking, io |-> a.io,
           result |-> Res("apply_no_arms_fastflag", FALSE, 0, "Failed to apply no arms FastFlag", a.result.errors)]
     ELSE IF tOk2
     THEN [ixp |-> a.ixp, tracking |-> save_tracking_data(a.tracking, td1, TRUE),
           io |-> a.io \o <<W("ledger", TRUE)>>,
           result |-> Res("apply_no_arms_fastflag", TRUE, 0, "No arms FastFlag applied successfully", <<>>)]
     ELSE [ixp |-> a.ixp, tracking |-> save_tracking_data(a.tracking, td1, FALSE),
           io |-> a.io \o <<W("ledger", FALSE)>>,
           result |-> Res("apply_no_arms_fastflag", FALSE, 0, "FastFlag applied but failed to update tracking data",
                          <<"FastFlag applied but failed to update tracking data">>)]

\* The ledger document remove_no_arms_fastflag saves last: the one it loaded
\* BEFORE remove_fastflags ran (td), with the fix marked inactive.
NoArmsFinalDoc(td, after) == [td EXCEPT !.no_arms_fix.active = FALSE]

\* remove_no_arms_fastflag: the ledger is loaded, remove_fastflags([flag]) runs
\* (and saves its own ledger), then the fix is marked inactive and the ledger
\* is saved (tOk2).
remove_no_arms_fastflag(f, t, sOk, tOk, tOk2) ==
  LET td0 == load_tracking_data(t)
      flag_name == FlagApplied(td0.no_arms_fix)
      r == remove_fastflags(f, t, FALSE, <<flag_name>>, sOk, tOk)
      td1 == NoArmsFinalDoc(td0, load_tracking_data(r.tracking))
  IN IF ~td0.no_arms_fix.present \/ ~td0.no_arms_fix.active
     THEN [ixp |-> f, tracking |-> t, io |-> <<>>,
           result |-> Res("remove_no_arms_fastflag", FALSE, 0, "No arms fix is not currently active",
                          <<"No arms fix is not currently active">>)]
     ELSE IF ~r.result.success
     THEN [ixp |-> r.ixp, tracking |-> r.tracking, io |-> r.io,
           result |-> Res("remove_no_arms_fastflag", FALSE, 0, "Failed to remove no arms FastFlag", r.result.errors)]
     ELSE IF tOk2
     THEN [ixp |-> r.ixp, tracking |-> save_tracking_data(r.tracking, td1, TRUE),
           io |-> r.io \o <<W("ledger", TRUE)>>,
           result |-> Res("remove_no_arms_fastflag", TRUE, 0, "No arms FastFlag removed successfully", <<>>)]
     ELSE [ixp |-> r.ixp, tracking |-> save_tracking_data(r.tracking, td1, FALSE),
           io |-> r.io \o <<W("ledger", FALSE)>>,
           result |-> Res("remove_no_arms_fastflag", FALSE, 0, "FastFlag removed but failed to update tracking data",
                          <<"FastFlag removed but failed to update tracking data">>)]

\* create_initial_backup: skipped when a backup is there; else the settings are
\* snapshotted (an absent settings file is first created empty, not read-only)
\* and the ledger is saved.
create_initial_backup(f, t, sOk, tOk) ==
  LET td0 == load_tracking_data(t)
      cur == IF f.exists THEN load_ixp_settings(f) ELSE EmptyMap
      f2 == IF f.exists THEN f ELSE save_ixp_settings(f, EmptyMap, FALSE, sOk)
      pre == IF f.exists THEN <<>> ELSE <<W("settings", sOk)>>
      td1 == [td0 EXCEPT !.backup = cur, !.backup_created = "ts"]
  IN IF DOMAIN td0.backup # {}
     THEN [ixp |-> f, tracking |-> t, io |-> <<>>,
           result |-> Res("create_initial_backup", TRUE, 0, "Backup already exists, skipping creation", <<>>)]
     ELSE IF ~f.exists /\ ~sOk
     THEN [ixp |-> f2, tracking |-> t, io |-> pre,
           result |-> Res("create_initial_backup", FALSE, 0, "Failed to create initial IxpSettings.json",
                          <<"Failed to create initial IxpSettings.json">>)]
     ELSE IF tOk
     THEN [ixp |-> f2, tracking |-> save_tracking_data(t, td1, TRUE), io |-> pre \o <<W("ledger", TRUE)>>,
           result |-> Res("create_initial_backup", TRUE, Cardinality(DOMAIN cur),
                          "Initial backup created successfully", <<>>)]
     ELSE [ixp |-> f2, tracking |-> save_tracking_data(t, td1, FALSE), io |-> pre \o <<W("ledger", FALSE)>>,
           result |-> Res("create_initial_backup", FALSE, 0, "Failed to save backup tracking data",
                          <<"Failed to save backup tracking data">>)]

\* ensure_backup_exists returns a bool: True when a backup is there, else
\* create_initial_backup's success.
ensure_backup_exists(f, t, sOk, tOk) ==
  LET td0 == load_tracking_data(t)
      c == create_initial_backup(f, t, sOk, tOk)
  IN IF DOMAIN td0.backup # {}
     THEN [ixp |-> f, tracking |-> t, io |-> <<>>,
           result |-> Res("ensure_backup_exists", TRUE, 0, "", <<>>)]
     ELSE [ixp |-> c.ixp, tracking |-> c.tracking, io |-> c.io,
           result |-> Res("ensure_backup_exists", c.result.success, 0, "", <<>>)]

restore_ixp_settings_permissions(f, t) ==
  IF ~f.exists
  THEN [ixp |-> f, tracking |-> t, io |-> <<>>,
        result |-> Res("restore_ixp_settings_permissions", FALSE, 0, "IxpSettings.json does not exist", <<>>)]
  ELSE [ixp |-> [f EXCEPT !.readonly = FALSE], tracking |-> t, io |-> <<>>,
        result |-> Res("restore_ixp_settings_permissions", TRUE, 0,
                       "IxpSettings.json permissions restored (readonly removed)", <<>>)]

(* ----------------------------- asset cache ------------------------------ *)

\* No file at a path (as a content), no path found (as a path).
NoFile == "nofile"

NoSlot == <<"nowhere", "">>

\* File contents.
Contents == {"p", "q"}

\* The hashes handed to the single asset operations.
Hashes == {"ab", "AB"}

\* The batch of ToolsTab.apply_skybox_fix: its originals (two of the six) and
\* the replacement of them all.
assets_to_swap == <<"ab", "cd">>

skybox_replacement_hash == "r1"

\* The names of cache files.
FileNames == Hashes \cup {assets_to_swap[i] : i \in 1..Len(assets_to_swap)}

\* str.lower() on the hashes.
Lower(h) == IF h = "AB" THEN "ab" ELSE h

\* The directories of the cache in os.walk order: the root, then a sub-directory.
WalkDirs == <<"root", "sub">>

\* The paths of the cache: <<directory, file name>>.  The backup of a path is
\* its sibling path + '.cdbl_backup', kept in cache.backups under the path.
Slots == {<<WalkDirs[i], n>> : i \in 1..Len(WalkDirs), n \in FileNames}

NoFiles == [s \in Slots |-> NoFile]

\* The names of the extracted assets and the hashes asked of them; "hq" is
\* the SHA256 of content "q", "hp" of content "p".
StoreNames == {"r1", "r2"}

ReplHashes == {"r1", "r2", "hq"}

\* get_file_hash.
Digest(c) == IF c = "q" THEN "hq" ELSE "hp"

NoCache == [exists |-> FALSE, files |-> NoFiles, backups |-> NoFiles]

NoAssets == [exists |-> FALSE, files |-> [n \in StoreNames |-> NoFile]]

\* find_asset_by_hash: a file of the directory whose SHA256 is the hash; its
\* content (files of one digest have one content).
find_asset_by_hash(target_hash, files) ==
  LET found == {n \in DOMAIN files : files[n] # NoFile /\ Digest(files[n]) = Lower(target_hash)}
  IN IF found = {} THEN NoFile ELSE files[CHOOSE n \in found : TRUE]

\* find_replacement_asset: the content of the replacement, NoFile for None.
find_replacement_asset(a, replacement_hash) ==
  IF ~a.exists THEN NoFile
  ELSE IF replacement_hash \in DOMAIN a.files /\ a.files[replacement_hash] # NoFile
  THEN a.files[replacement_hash]
  ELSE find_asset_by_hash(replacement_hash, a.files)

\* "file == original_hash or file.lower() == original_hash.lower()".
Matches(file, h) == file = h \/ Lower(file) = Lower(h)

\* The os.walk loop: the first file of the cache the hash names.
RECURSIVE FindFrom(_, _, _)
FindFrom(i, files, h) ==
  IF i > Len(WalkDirs) THEN NoSlot
  ELSE LET here == {s \in Slots : s[1] = WalkDirs[i] /\ files[s] # NoFile /\ Matches(s[2], h)}
       IN IF here # {} THEN CHOOSE s \in here : TRUE ELSE FindFrom(i + 1, files, h)

FindInCache(c, h) == FindFrom(1, c.files, h)

AssetRes(c, log, op, success, message, errors) ==
  [cache |-> c, io |-> log, result |-> Res(op, success, 0, message, errors)]

\* A call copied over a file that was there.
Overwrote(s, log) == s # NoSlot /\ \E i \in 1..Len(log) : log[i] = W("asset", TRUE)

\* orig after a call on the file s whose copies were log: the content the
\* file had is recorded when a copy goes over it for the first time.
FirstOverwrite(o, c, s, log) ==
  IF Overwrote(s, log) /\ o[s] = NoFile THEN [o EXCEPT ![s] = c.files[s]] ELSE o

\* BackupAndReplace without the "if not os.path.exists(backup_path)".
BackupAndReplace_AlwaysBackup(c, s, rep, bOk, wOk) ==
  LET c1 == [c EXCEPT !.backups[s] = c.files[s]]
      pre == <<W("backup", bOk)>>
  IN IF ~bOk THEN [cache |-> c, io |-> pre, ok |-> FALSE]
     ELSE IF ~wOk THEN [cache |-> c1, io |-> pre \o <<W("asset", FALSE)>>, ok |-> FALSE]
     ELSE [cache |-> [c1 EXCEPT !.files[s] = rep], io |-> pre \o <<W("asset", TRUE)>>, ok |-> TRUE]

\* "Create backup of original" and "Replace with new asset": the backup is
\* copied (bOk) when the path has none, then the replacement is copied over
\* the file (wOk); a copy that fails raises and leaves its target as it was.
BackupAndReplace(c, s, rep, bOk, wOk) ==
  LET need == c.backups[s] = NoFile
      c1 == IF need THEN [c EXCEPT !.backups[s] = c.files[s]] ELSE c
      pre == IF need THEN <<W("backup", bOk)>> ELSE <<>>
  IN IF need /\ ~bOk THEN [cache |-> c, io |-> pre, ok |-> FALSE]
     ELSE IF ~wOk THEN [cache |-> c1, io |-> pre \o <<W("asset", FALSE)>>, ok |-> FALSE]
     ELSE [cache |-> [c1 EXCEPT !.files[s] = rep], io |-> pre \o <<W("asset", TRUE)>>, ok |-> TRUE]

\* swap_asset making the backup before it looks for the replacement.
swap_asset_BackupFirst(c, a, original_hash, replacement_hash, bOk, wOk) ==
  LET rep == find_replacement_asset(a, replacement_hash)
      s == FindInCache(c, original_hash)
      c1 == IF c.backups[s] = NoFile THEN [c EXCEPT !.backups[s] = c.files[s]] ELSE c
      r == BackupAndReplace(c, s, rep, bOk, wOk)
  IN IF ~c.exists
     THEN AssetRes(c, <<>>, "swap_asset", FALSE, "Roblox cache directory not found",
                   <<"Roblox cache directory not found">>)
     ELSE IF s = NoSlot
     THEN AssetRes(c, <<>>, "swap_asset", FALSE, "Original asset not found in Roblox cache",
                   <<"Original asset not found in Roblox cache">>)
     ELSE IF rep = NoFile
     THEN AssetRes(c1, <<>>, "swap_asset", FALSE, "Replacement asset not found in extracted assets",
                   <<"Replacement asset not found in extracted assets">>)
     ELSE IF r.ok
     THEN AssetRes(r.cache, r.io, "swap_asset", TRUE, "Successfully swapped asset", <<>>)
     ELSE AssetRes(r.cache, r.io, "swap_asset", FALSE, "Error swapping asset", <<"Error swapping asset">>)

swap_asset(c, a, original_hash, replacement_hash, bOk, wOk) ==
  LET rep == find_replacement_asset(a, replacement_hash)
      s == FindInCache(c, original_hash)
      r == BackupAndReplace(c, s, rep, bOk, wOk)
  IN IF ~c.exists
     THEN AssetRes(c, <<>>, "swap_asset", FALSE, "Roblox cache directory not found",
                   <<"Roblox cache directory not found">>)
     ELSE IF rep = NoFile
     THEN AssetRes(c, <<>>, "swap_asset", FALSE, "Replacement asset not found in extracted assets",
                   <<"Replacement asset not found in extracted assets">>)
     ELSE IF s = NoSlot
     THEN AssetRes(c, <<>>, "swap_asset", FALSE, "Original asset not found in Roblox cache",
                   <<"Original asset not found in Roblox cache">>)
     ELSE IF r.ok
     THEN AssetRes(r.cache, r.io, "swap_asset", TRUE, "Successfully swapped asset", <<>>)
     ELSE AssetRes(r.cache, r.io, "swap_asset", FALSE, "Error swapping asset", <<"Error swapping asset">>)

\* place_asset_in_cache requiring the original, as swap_asset does.
place_asset_in_cache_Strict(c, a, asset_hash, replacement_hash, bOk, wOk) ==
  [swap_asset(c, a, asset_hash, replacement_hash, bOk, wOk) EXCEPT !.result.op = "place_asset_in_cache"]

place_asset_in_cache(c, a, asset_hash, replacement_hash, bOk, wOk) ==
  LET rep == find_replacement_asset(a, replacement_hash)
      s == FindInCache(c, asset_hash)
      r == BackupAndReplace(c, s, rep, bOk, wOk)
      destination_path == <<WalkDirs[1], asset_hash>>
  IN IF ~c.exists
     THEN AssetRes(c, <<>>, "place_asset_in_cache", FALSE, "Roblox cache directory not found",
                   <<"Roblox cache directory not found">>)
     ELSE IF rep = NoFile
     THEN AssetRes(c, <<>>, "place_asset_in_cache", FALSE, "Replacement asset not found in extracted assets",
                   <<"Replacement asset not found in extracted assets">>)
     ELSE IF s # NoSlot
     THEN IF r.ok
          THEN AssetRes(r.cache, r.io, "place_asset_in_cache", TRUE, "Replaced existing asset", <<>>)
          ELSE AssetRes(r.cache, r.io, "place_asset_in_cache", FALSE, "Error placing asset",
                        <<"Error placing asset">>)
     ELSE IF wOk
     THEN AssetRes([c EXCEPT !.files[destination_path] = rep], <<W("asset", TRUE)>>,
                   "place_asset_in_cache", TRUE, "Placed new asset in cache", <<>>)
     ELSE AssetRes(c, <<W("asset", FALSE)>>, "place_asset_in_cache", FALSE, "Error placing asset",
                   <<"Error placing asset">>)

NO_ASSET_BACKUP_MESSAGE == "No backup found for asset"

\* restore_asset moving the backup over the file instead of copying it.
restore_asset_MovesBackup(c, asset_hash, wOk) ==
  LET s == FindInCache(c, asset_hash)
  IN IF ~c.exists \/ s = NoSlot \/ ~wOk
     THEN AssetRes(c, <<>>, "restore_asset", FALSE, "Error restoring asset", <<"Error restoring asset">>)
     ELSE IF c.backups[s] = NoFile
     THEN AssetRes(c, <<>>, "restore_asset", FALSE, NO_ASSET_BACKUP_MESSAGE, <<NO_ASSET_BACKUP_MESSAGE>>)
     ELSE AssetRes([c EXCEPT !.files[s] = c.backups[s], !.backups[s] = NoFile], <<W("asset", TRUE)>>,
                   "restore_asset", TRUE, "Successfully restored asset", <<>>)

\* restore_asset without its "No backup found" branch: the copy raises.
restore_asset_NoBackupCheck(c, asset_hash, wOk) ==
  LET s == FindInCache(c, asset_hash)
  IN IF ~c.exists \/ s = NoSlot \/ c.backups[s] = NoFile \/ ~wOk
     THEN AssetRes(c, <<>>, "restore_asset", FALSE, "Error restoring asset", <<"Error restoring asset">>)
     ELSE AssetRes([c EXCEPT !.files[s] = c.backups[s]], <<W("asset", TRUE)>>,
                   "restore_asset", TRUE, "Successfully restored asset", <<>>)

restore_asset(c, asset_hash, wOk) ==
  LET s == FindInCache(c, asset_hash)
  IN IF ~c.exists
     THEN AssetRes(c, <<>>, "restore_asset", FALSE, "Roblox cache directory not found",
                   <<"Roblox cache directory not found">>)
     ELSE IF s = NoSlot
     THEN AssetRes(c, <<>>, "restore_asset", FALSE, "Asset not found in cache", <<"Asset not found in cache">>)
     ELSE IF c.backups[s] = NoFile
     THEN AssetRes(c, <<>>, "restore_asset", FALSE, NO_ASSET_BACKUP_MESSAGE, <<NO_ASSET_BACKUP_MESSAGE>>)
     ELSE IF wOk
     THEN AssetRes([c EXCEPT !.files[s] = c.backups[s]], <<W("asset", TRUE)>>,
                   "restore_asset", TRUE, "Successfully restored asset", <<>>)
     ELSE AssetRes(c, <<W("asset", FALSE)>>, "restore_asset", FALSE, "Error restoring asset",
                   <<"Error restoring asset">>)

(* ------------------------------ the batches ---------------------------- *)

\* Most pairs in the assets.json mapping of a model run.
MaxPairs == 2

\* The fast flags apply_skybox_fix (assets.py) applies after its batch.
skybox_fix_flags ==
  [k \in {"FFlagRenderSkyboxUseIBL", "FFlagRenderSkyboxUseEnvMap"} |-> "False"]

\* The batch loop that stops at the first pair that fails.
RECURSIVE BatchLoop_StopsAtFailure(_, _, _, _, _)
BatchLoop_StopsAtFailure(strict, st, a, pairs, oks) ==
  IF pairs = <<>> \/ st.errors # <<>> THEN st
  ELSE LET h == Head(pairs)[1]
           r == IF strict
                THEN swap_asset(st.cache, a, h, Head(pairs)[2], Head(oks)[1], Head(oks)[2])
                ELSE place_asset_in_cache(st.cache, a, h, Head(pairs)[2], Head(oks)[1], Head(oks)[2])
       IN BatchLoop_StopsAtFailure(strict,
                    [cache |-> r.cache,
                     orig |-> FirstOverwrite(st.orig, st.cache, FindInCache(st.cache, h), r.io),
                     count |-> IF r.result.success THEN st.count + 1 ELSE st.count,
                     errors |-> IF r.result.success THEN st.errors
                                ELSE Append(st.errors, r.result.message),
                     io |-> st.io \o r.io],
                    a, Tail(pairs), Tail(oks))

\* The batch loop over (original, replacement) pairs, swap_asset (strict) or
\* place_asset_in_cache on each, oks[i] the outcomes of pair i's copies: the
\* cache, the successes counted and the failures listed after it.
RECURSIVE BatchLoop(_, _, _, _, _)
BatchLoop(strict, st, a, pairs, oks) ==
  IF pairs = <<>> THEN st
  ELSE LET h == Head(pairs)[1]
           r == IF strict
                THEN swap_asset(st.cache, a, h, Head(pairs)[2], Head(oks)[1], Head(oks)[2])
                ELSE place_asset_in_cache(st.cache, a, h, Head(pairs)[2], Head(oks)[1], Head(oks)[2])
       IN BatchLoop(strict,
                    [cache |-> r.cache,
                     orig |-> FirstOverwrite(st.orig, st.cache, FindInCache(st.cache, h), r.io),
                     count |-> IF r.result.success THEN st.count + 1 ELSE st.count,
                     errors |-> IF r.result.success THEN st.errors
                                ELSE Append(st.errors, r.result.message),
                     io |-> st.io \o r.io],
                    a, Tail(pairs), Tail(oks))

BatchStart(c, o) == [cache |-> c, orig |-> o, count |-> 0, errors |-> <<>>, io |-> <<>>]

\* apply_skybox_fix (assets.py): the assets are downloaded (dOk; a2 is the
\* extracted assets directory and assets_data the mapping it leaves), every
\* pair of the mapping is placed, then the fast flags are applied.
apply_skybox_fix(c, o, a, a2, f, t, dOk, assets_data, oks, sOk, tOk) ==
  LET b == BatchLoop(FALSE, BatchStart(c, o), a2, assets_data, oks)
      fr == apply_fastflags(f, t, skybox_fix_flags, sOk, tOk)
      failed_count == Len(b.errors)
  IN IF ~dOk
     THEN [cache |-> c, orig |-> o, assets |-> a, ixp |-> f, tracking |-> t, io |-> <<>>,
           result |-> Res("apply_skybox_fix", FALSE, 0, "Failed to download required assets",
                          <<"Failed to download assets.json">>)]
     ELSE IF ~fr.result.success
     THEN [cache |-> b.cache, orig |-> b.orig, assets |-> a2, ixp |-> fr.ixp, tracking |-> fr.tracking,
           io |-> b.io \o fr.io,
           result |-> Res("apply_skybox_fix", FALSE, b.count, "Failed to apply skybox fix fastflags",
                          b.errors \o fr.result.errors)]
     ELSE [cache |-> b.cache, orig |-> b.orig, assets |-> a2, ixp |-> fr.ixp, tracking |-> fr.tracking,
           io |-> b.io \o fr.io,
           result |-> Res("apply_skybox_fix", b.count > 0, b.count,
                          IF b.count > 0
                          THEN IF failed_count > 0 THEN "Skybox fix applied with assets swapped (failed)"
                               ELSE "Skybox fix applied successfully"
                          ELSE "No assets were swapped",
                          b.errors)]

\* ToolsTab.apply_skybox_fix (main.py): the skybox fast flag is applied, then
\* every asset of assets_to_swap is swapped and a message box reports; the
\* result holds the box's title, success_count and failed_swaps, success
\* standing for the Success and Partial Success boxes.
ToolsTab_apply_skybox_fix(c, o, a, f, t, oks, sOk, tOk) ==
  LET fl == apply_skybox_fastflag(f, t, sOk, tOk)
      pairs == [i \in 1..Len(assets_to_swap) |-> <<assets_to_swap[i], skybox_replacement_hash>>]
      b == BatchLoop(TRUE, BatchStart(c, o), a, pairs, oks)
  IN IF ~fl.result.success
     THEN [cache |-> c, orig |-> o, assets |-> a, ixp |-> fl.ixp, tracking |-> fl.tracking, io |-> fl.io,
           result |-> Res("ToolsTab.apply_skybox_fix", FALSE, 0, "Error", <<>>)]
     ELSE [cache |-> b.cache, orig |-> b.orig, assets |-> a, ixp |-> fl.ixp, tracking |-> fl.tracking,
           io |-> fl.io \o b.io,
           result |-> Res("ToolsTab.apply_skybox_fix", b.count > 0, b.count,
                          IF b.count = Len(assets_to_swap) THEN "Success"
                          ELSE IF b.count > 0 THEN "Partial Success" ELSE "Failed",
                          b.errors)]

(* ------------------------------ the machine ---------------------------- *)

\* The fast_flags dictionaries and flag_names lists the callers hand in.
FlagInputs == {F \in FlagSets : Cardinality(DOMAIN F) <= MaxFlags}

NameInputs == UNION {[1..n -> Keys] : n \in 0..MaxNames}

NoCall == [op |-> "none", flags |-> EmptyMap, all |-> FALSE, names |-> <<>>]

Call(op, flags, all, names) == [op |-> op, flags |-> flags, all |-> all, names |-> names]

\* The settings files the client may have left: none, or any flag dictionary
\* (the client does not mark its file read-only).
ClientIxp ==
  {AbsentIxp} \cup {[exists |-> TRUE, data |-> d, readonly |-> FALSE] : d \in FlagSets}

\* A first run: the client's settings, no ledger yet.
Init ==
  /\ ixp \in ClientIxp
  /\ tracking = AbsentTracking
  /\ call = NoCall
  /\ result = Res("none", FALSE, 0, "", <<>>)
  /\ io = <<>>
  /\ faulted = FALSE
  /\ first = AbsentIxp
  /\ session = <<>>
  /\ cache = NoCache
  /\ assets = NoAssets
  /\ orig = NoFiles
  /\ placed = {}
  /\ AtRest

\* Every write a call attempted succeeded.
AllWritesOk(log) == \A i \in 1..Len(log) : log[i].ok

\* One call c: the files, the result and the writes it attempted become r's.
\* A run holds at most one call whose writes fail.
Do(c, r) ==
  /\ faulted => AllWritesOk(r.io)
  /\ ixp' = r.ixp
  /\ tracking' = r.tracking
  /\ call' = c
  /\ result' = r.result
  /\ io' = r.io
  /\ faulted' = (faulted \/ ~AllWritesOk(r.io))

\* The outcomes of the writes that follow the settings write: none is
\* attempted once the settings write has failed.
Later(sOk, Outcomes) == IF sOk THEN Outcomes ELSE {TRUE}

ApplyFastflags(Outcomes) ==
  \E F \in FlagInputs, sOk \in Outcomes : \E tOk \in Later(sOk, Outcomes) :
    Do(Call("apply_fastflags", F, FALSE, <<>>),
       apply_fastflags(ixp, tracking, F, sOk, tOk))

RemoveFastflags(Outcomes) ==
  \E names \in NameInputs, sOk \in Outcomes : \E tOk \in Later(sOk, Outcomes) :
    Do(Call("remove_fastflags", EmptyMap, FALSE, names),
       remove_fastflags(ixp, tracking, FALSE, names, sOk, tOk))

RemoveAllFastflags(Outcomes) ==
  \E sOk \in Outcomes : \E tOk \in Later(sOk, Outcomes) :
    Do(Call("remove_fastflags", EmptyMap, TRUE, <<>>),
       remove_fastflags(ixp, tracking, TRUE, <<>>, sOk, tOk))

RestoreOriginalSettings(Outcomes) ==
  \E sOk \in Outcomes : \E tOk \in Later(sOk, Outcomes) :
    Do(Call("restore_original_settings", EmptyMap, FALSE, <<>>),
       restore_original_settings(ixp, tracking, sOk, tOk))

ApplySkyboxFastflag(Outcomes) ==
  \E sOk \in Outcomes : \E tOk \in Later(sOk, Outcomes) :
    Do(Call("apply_skybox_fastflag", EmptyMap, FALSE, <<>>),
       apply_skybox_fastflag(ixp, tracking, sOk, tOk))

RemoveSkyboxFastflag(Outcomes) ==
  \E sOk \in Outcomes : \E tOk \in Later(sOk, Outcomes) :
    Do(Call("remove_skybox_fastflag", EmptyMap, FALSE, <<>>),
       remove_skybox_fastflag(ixp, tracking, sOk, tOk))

ApplyNoArmsFastflag(Outcomes) ==
  \E sOk \in Outcomes : \E tOk, tOk2 \in Later(sOk, Outcomes) :
    Do(Call("apply_no_arms_fastflag", EmptyMap, FALSE, <<>>),
       apply_no_arms_fastflag(ixp, tracking, sOk, tOk, tOk2))

RemoveNoArmsFastflag(Outcomes) ==
  \E sOk \in Outcomes : \E tOk, tOk2 \in Later(sOk, Outcomes) :
    Do(Call("remove_no_arms_fastflag", EmptyMap, FALSE, <<>>),
       remove_no_arms_fastflag(ixp, tracking, sOk, tOk, tOk2))

CreateInitialBackup(Outcomes) ==
  \E sOk \in Outcomes : \E tOk \in Later(sOk, Outcomes) :
    Do(Call("create_initial_backup", EmptyMap, FALSE, <<>>),
       create_initial_backup(ixp, tracking, sOk, tOk))

EnsureBackupExists(Outcomes) ==
  \E sOk \in Outcomes : \E tOk \in Later(sOk, Outcomes) :
    Do(Call("ensure_backup_exists", EmptyMap, FALSE, <<>>),
       ensure_backup_exists(ixp, tracking, sOk, tOk))

RestoreIxpSettingsPermissions ==
  Do(Call("restore_ixp_settings_permissions", EmptyMap, FALSE, <<>>),
       restore_ixp_settings_permissions(ixp, tracking))

\* Outside a recorded session the session's record stays as it is, and the
\* flag operations do not touch the asset cache.
NoSession == UNCHANGED <<first, session, cache, assets, orig, placed, others>>

\* The flag operations, writes failing in at most one call.
Next ==
  \/ ApplyFastflags(BOOLEAN) /\ NoSession
  \/ RemoveFastflags(BOOLEAN) /\ NoSession
  \/ RemoveAllFastflags(BOOLEAN) /\ NoSession
  \/ RestoreOriginalSettings(BOOLEAN) /\ NoSession
  \/ ApplySkyboxFastflag(BOOLEAN) /\ NoSession
  \/ RemoveSkyboxFastflag(BOOLEAN) /\ NoSession
  \/ ApplyNoArmsFastflag(BOOLEAN) /\ NoSession
  \/ RemoveNoArmsFastflag(BOOLEAN) /\ NoSession

Spec == Init /\ [][Next]_vars

\* The flag operations, every write succeeding.
NextOk ==
  \/ ApplyFastflags({TRUE}) /\ NoSession
  \/ RemoveFastflags({TRUE}) /\ NoSession
  \/ RemoveAllFastflags({TRUE}) /\ NoSession
  \/ RestoreOriginalSettings({TRUE}) /\ NoSession
  \/ ApplySkyboxFastflag({TRUE}) /\ NoSession
  \/ RemoveSkyboxFastflag({TRUE}) /\ NoSession
  \/ ApplyNoArmsFastflag({TRUE}) /\ NoSession
  \/ RemoveNoArmsFastflag({TRUE}) /\ NoSession

SpecOk == Init /\ [][NextOk]_vars

\* The flag operations and the setup operations (the first-run backup, the
\* permissions reset), every write succeeding.
NextSetup ==
  \/ ApplyFastflags({TRUE}) /\ NoSession
  \/ RemoveFastflags({TRUE}) /\ NoSession
  \/ RemoveAllFastflags({TRUE}) /\ NoSession
  \/ RestoreOriginalSettings({TRUE}) /\ NoSession
  \/ ApplySkyboxFastflag({TRUE}) /\ NoSession
  \/ RemoveSkyboxFastflag({TRUE}) /\ NoSession
  \/ ApplyNoArmsFastflag({TRUE}) /\ NoSession
  \/ RemoveNoArmsFastflag({TRUE}) /\ NoSession
  \/ CreateInitialBackup({TRUE}) /\ NoSession
  \/ EnsureBackupExists({TRUE}) /\ NoSession
  \/ RestoreIxpSettingsPermissions /\ NoSession

SpecSetup == Init /\ [][NextSetup]_vars

\* The same, writes failing in at most one call.
NextSetupFaulty ==
  \/ ApplyFastflags(BOOLEAN) /\ NoSession
  \/ RemoveFastflags(BOOLEAN) /\ NoSession
  \/ RemoveAllFastflags(BOOLEAN) /\ NoSession
  \/ RestoreOriginalSettings(BOOLEAN) /\ NoSession
  \/ ApplySkyboxFastflag(BOOLEAN) /\ NoSession
  \/ RemoveSkyboxFastflag(BOOLEAN) /\ NoSession
  \/ ApplyNoArmsFastflag(BOOLEAN) /\ NoSession
  \/ RemoveNoArmsFastflag(BOOLEAN) /\ NoSession
  \/ CreateInitialBackup(BOOLEAN) /\ NoSession
  \/ EnsureBackupExists(BOOLEAN) /\ NoSession
  \/ RestoreIxpSettingsPermissions /\ NoSession

SpecSetupFaulty == Init /\ [][NextSetupFaulty]_vars

\* Any files in which applied_flags is a subset of the live settings.
InitTracked ==
  /\ ixp \in {AbsentIxp} \cup {[exists |-> TRUE, data |-> d, readonly |-> ro] : d \in FlagSets, ro \in BOOLEAN}
  /\ tracking \in {AbsentTracking} \cup
       {[exists |-> TRUE,
         data |-> [DefaultTracking EXCEPT !.applied_flags = a, !.backup = b, !.last_modified = "ts"]] :
        a \in {x \in FlagSets : DOMAIN x \subseteq DOMAIN load_ixp_settings(ixp)}, b \in FlagSets}
  /\ call = NoCall
  /\ result = Res("none", FALSE, 0, "", <<>>)
  /\ io = <<>>
  /\ faulted = FALSE
  /\ first = AbsentIxp
  /\ session = <<>>
  /\ cache = NoCache
  /\ assets = NoAssets
  /\ orig = NoFiles
  /\ placed = {}
  /\ AtRest

\* apply_fastflags and remove_fastflags only, every write succeeding.
NextTracked ==
  \/ ApplyFastflags({TRUE}) /\ NoSession
  \/ RemoveFastflags({TRUE}) /\ NoSession
  \/ RemoveAllFastflags({TRUE}) /\ NoSession

SpecTracked == InitTracked /\ [][NextTracked]_vars

\* A recorded session on a first run: apply_fastflags calls, every write
\* succeeding, at most MaxCalls of them.
InitSession ==
  /\ ixp \in ClientIxp
  /\ tracking = AbsentTracking
  /\ call = NoCall
  /\ result = Res("none", FALSE, 0, "", <<>>)
  /\ io = <<>>
  /\ faulted = FALSE
  /\ first = ixp
  /\ session = <<>>
  /\ cache = NoCache
  /\ assets = NoAssets
  /\ orig = NoFiles
  /\ placed = {}
  /\ AtRest

ApplyInSession ==
  \E F \in FlagInputs :
    /\ Len(session) < MaxCalls
    /\ Do(Call("apply_fastflags", F, FALSE, <<>>),
       apply_fastflags(ixp, tracking, F, TRUE, TRUE))
    /\ session' = Append(session, F)
    /\ UNCHANGED <<first, cache, assets, orig, placed, others>>

SpecSession == InitSession /\ [][ApplyInSession]_vars

\* The caches the client may have left: no cache directory, or files of any
\* content, no two names of a directory equal up to case (the cache is on
\* the client's Windows file system), and no backup yet.
ClientCaches ==
  {NoCache} \cup
  {[exists |-> TRUE, files |-> f, backups |-> NoFiles] :
     f \in {g \in [Slots -> Contents \cup {NoFile}] :
              \A s, t \in Slots :
                (g[s] # NoFile /\ g[t] # NoFile /\ s[1] = t[1] /\ Lower(s[2]) = Lower(t[2])) => s = t}}

\* The extracted assets download_archive_files may have left: no directory,
\* an empty one, or assets of distinct contents ("r1" is not named by its
\* SHA256, "hq", and is found under either).
ExtractedAssets ==
  {NoAssets} \cup
  {[exists |-> TRUE, files |-> f] :
     f \in {[n \in StoreNames |-> NoFile],
            [n \in StoreNames |-> IF n = "r1" THEN "q" ELSE NoFile],
            [n \in StoreNames |-> IF n = "r1" THEN "q" ELSE "p"]}}

\* A first run of the single asset operations, on the files their hashes name.
InitAssets ==
  /\ ixp = AbsentIxp
  /\ tracking = AbsentTracking
  /\ call = NoCall
  /\ result = Res("none", FALSE, 0, "", <<>>)
  /\ io = <<>>
  /\ faulted = FALSE
  /\ first = AbsentIxp
  /\ session = <<>>
  /\ cache \in {c \in ClientCaches : \A s \in Slots : c.files[s] # NoFile => s[2] \in Hashes}
  /\ assets \in ExtractedAssets
  /\ orig = NoFiles
  /\ placed = {}
  /\ AtRest

\* The cache files that are in cache d and were not in cache c.
Created(c, d) == {s \in Slots : c.files[s] = NoFile /\ d.files[s] # NoFile}

\* One call c on the file the hash h names: the cache, the result and the
\* copies attempted become r's; orig records the content a file had when a
\* copy first went over it, placed the files the call created.  A run holds
\* at most one call whose copies fail.
DoAsset(c, h, r) ==
  /\ faulted => AllWritesOk(r.io)
  /\ cache' = r.cache
  /\ call' = c
  /\ result' = r.result
  /\ io' = r.io
  /\ faulted' = (faulted \/ ~AllWritesOk(r.io))
  /\ orig' = FirstOverwrite(orig, cache, FindInCache(cache, h), r.io)
  /\ placed' = placed \cup Created(cache, r.cache)
  /\ UNCHANGED <<ixp, tracking, first, session, assets, others>>

SwapAsset(Outcomes) ==
  \E h \in Hashes, rh \in ReplHashes, bOk \in Outcomes : \E wOk \in Later(bOk, Outcomes) :
    DoAsset(Call("swap_asset", EmptyMap, FALSE, <<h, rh>>), h,
            swap_asset(cache, assets, h, rh, bOk, wOk))

PlaceAssetInCache(Outcomes) ==
  \E h \in Hashes, rh \in ReplHashes, bOk \in Outcomes : \E wOk \in Later(bOk, Outcomes) :
    DoAsset(Call("place_asset_in_cache", EmptyMap, FALSE, <<h, rh>>), h,
            place_asset_in_cache(cache, assets, h, rh, bOk, wOk))

RestoreAsset(Outcomes) ==
  \E h \in Hashes, wOk \in Outcomes :
    DoAsset(Call("restore_asset", EmptyMap, FALSE, <<h>>), h,
            restore_asset(cache, h, wOk))

\* The asset operations, every copy succeeding.
NextAssets ==
  \/ SwapAsset({TRUE})
  \/ PlaceAssetInCache({TRUE})
  \/ RestoreAsset({TRUE})

SpecAssets == InitAssets /\ [][NextAssets]_vars

\* The outcomes a copy may have: a run holds at most one call whose copies fail.
CopyOutcomes == IF faulted THEN {TRUE} ELSE BOOLEAN

\* The same, copies failing in at most one call.
NextAssetsFaulty ==
  \/ SwapAsset(CopyOutcomes)
  \/ PlaceAssetInCache(CopyOutcomes)
  \/ RestoreAsset(CopyOutcomes)

SpecAssetsFaulty == InitAssets /\ [][NextAssetsFaulty]_vars

\* The mappings assets.json may hold: pairs of distinct originals, in the
\* order of the dictionary, the replacements named by file name.
BatchInputs ==
  {p \in UNION {[1..n -> {"ab", "cd"} \X StoreNames] : n \in 1..MaxPairs} :
     \A i, j \in 1..Len(p) : p[i][1] = p[j][1] => i = j}

\* The extracted assets a download may leave: the directory is there and
\* holds what it held.
Downloaded(a) ==
  {x \in ExtractedAssets : x.exists /\ \A n \in StoreNames : a.files[n] # NoFile => x.files[n] = a.files[n]}

\* The outcomes of a batch call of n pairs: those of the copies of each pair
\* (oks) and of the settings and ledger writes (sOk, tOk); at most one of
\* them all is a failure.
BatchOutcomes(n, Outcomes) ==
  {x \in [oks : [1..n -> {<<ok, ok>> : ok \in Outcomes}], sOk : Outcomes, tOk : Outcomes] :
     Cardinality({i \in 1..n : ~x.oks[i][1]}) + (IF x.sOk THEN 0 ELSE 1) + (IF x.tOk THEN 0 ELSE 1) <= 1}

\* A first run of the skybox-fix batches.
InitBatch ==
  /\ ixp = AbsentIxp
  /\ tracking = AbsentTracking
  /\ call = NoCall
  /\ result = Res("none", FALSE, 0, "", <<>>)
  /\ io = <<>>
  /\ faulted = FALSE
  /\ first = AbsentIxp
  /\ session = <<>>
  /\ cache \in {c \in ClientCaches : \A s \in Slots : c.files[s] # NoFile => s[1] = WalkDirs[1]}
  /\ assets \in ExtractedAssets
  /\ orig = NoFiles
  /\ placed = {}
  /\ AtRest

\* One batch call c: the files, the result and the writes attempted become
\* r's, and the session records the flags the call asked the settings file to
\* take (none when the call returned before its flag step).
DoBatch(c, r, asked) ==
  /\ Len(session) < MaxCalls
  /\ faulted => AllWritesOk(r.io)
  /\ cache' = r.cache
  /\ orig' = r.orig
  /\ assets' = r.assets
  /\ ixp' = r.ixp
  /\ tracking' = r.tracking
  /\ call' = c
  /\ result' = r.result
  /\ io' = r.io
  /\ faulted' = (faulted \/ ~AllWritesOk(r.io))
  /\ session' = session \o asked
  /\ placed' = placed \cup Created(cache, r.cache)
  /\ UNCHANGED <<first, others>>

ApplySkyboxFix(Outcomes) ==
  \/ DoBatch(Call("apply_skybox_fix", EmptyMap, FALSE, <<>>),
             apply_skybox_fix(cache, orig, assets, assets, ixp, tracking, FALSE, <<>>, <<>>, TRUE, TRUE),
             <<>>)
  \/ \E a2 \in Downloaded(assets), assets_data \in BatchInputs :
       \E x \in BatchOutcomes(Len(assets_data), Outcomes) :
         DoBatch(Call("apply_skybox_fix", EmptyMap, FALSE, assets_data),
                 apply_skybox_fix(cache, orig, assets, a2, ixp, tracking, TRUE, assets_data,
                                  x.oks, x.sOk, x.tOk),
                 <<skybox_fix_flags>>)

GuiApplySkyboxFix(Outcomes) ==
  \E x \in BatchOutcomes(Len(assets_to_swap), Outcomes) :
    DoBatch(Call("ToolsTab.apply_skybox_fix", EmptyMap, FALSE,
                 [i \in 1..Len(assets_to_swap) |-> <<assets_to_swap[i], skybox_replacement_hash>>]),
            ToolsTab_apply_skybox_fix(cache, orig, assets, ixp, tracking, x.oks, x.sOk, x.tOk),
            <<[k \in {SKYBOX_FLAG} |-> "false"]>>)

\* The skybox-fix batches, writes and copies failing in at most one call.
NextBatch ==
  \/ ApplySkyboxFix(CopyOutcomes)
  \/ GuiApplySkyboxFix(CopyOutcomes)

SpecBatch == InitBatch /\ [][NextBatch]_vars

(* ------------------------------- claims -------------------------------- *)

\* The documents the two files hold.
Live == load_ixp_settings(ixp)

Ledger == load_tracking_data(tracking)

\* C1: after any sequence of apply_fastflags and remove_fastflags calls whose
\* writes all succeed, from files in which applied_flags is a subset of the
\* live settings, every key of the persisted applied_flags is a key of the
\* live settings.
C1_LedgerSubset == DOMAIN Ledger.applied_flags \subseteq DOMAIN Live

\* C1's case: a successful remove_fastflags that left some flag applied.
C1_Witness ==
  /\ result.op = "remove_fastflags"
  /\ result.success
  /\ DOMAIN Ledger.applied_flags # {}

\* C2: the ledger subset invariant across the named-fix operations too: after
\* any sequence of apply/remove_fastflags, apply/remove_skybox_fastflag,
\* apply/remove_no_arms_fastflag and restore_original_settings calls whose
\* writes all succeed, every key of the persisted applied_flags is a key of
\* the live settings, and after a successful remove_no_arms_fastflag the
\* removed flag is not listed in applied_flags.
C2_LedgerSubsetAllOps ==
  /\ \A k \in DOMAIN Ledger.applied_flags : k \in DOMAIN Live
  /\ (result.op = "remove_no_arms_fastflag" /\ result.success)
       => FlagApplied(Ledger.no_arms_fix) \notin DOMAIN Ledger.applied_flags

\* C3: first backup wins: after apply_fastflags is called twice with different
\* non-empty flag sets on a first run (no ledger, any settings, also none),
\* the ledger's backup is the settings as they were before the first call.
C3_FirstBackupWins ==
  (/\ Len(session) = 2
   /\ session[1] # session[2]
   /\ DOMAIN session[1] # {}
   /\ DOMAIN session[2] # {})
    => Ledger.backup = load_ixp_settings(first)

\* C4: once the ledger's backup holds a snapshot (it is not empty), no call
\* other than restore_original_settings changes it.
C4_BackupImmutable ==
  [][(DOMAIN Ledger.backup # {} /\ result'.op # "restore_original_settings")
       => Ledger'.backup = Ledger.backup]_vars

\* C4's case: a successful apply_fastflags over a ledger whose snapshot differs
\* from the settings the call wrote.
C4_Witness ==
  /\ result.op = "apply_fastflags"
  /\ result.success
  /\ DOMAIN Ledger.backup # {}
  /\ Ledger.backup # Live

\* The elements of a list.
Range(q) == {q[i] : i \in 1..Len(q)}

\* C5: remove_fastflags(names) deletes from the live settings only names that
\* are keys of applied_flags (a name never applied stays, also when it is in
\* the settings and named); remove_fastflags(None) that succeeds deletes
\* exactly the keys of applied_flags; every other key keeps its value.
C5_RemoveOnlyApplied ==
  [][call'.op = "remove_fastflags"
       => LET owned == IF call'.all THEN DOMAIN Ledger.applied_flags
                       ELSE Range(call'.names) \cap DOMAIN Ledger.applied_flags
          IN /\ DOMAIN Live' \subseteq DOMAIN Live
             /\ \A k \in DOMAIN Live \ owned : k \in DOMAIN Live' /\ Live'[k] = Live[k]
             /\ result'.success => DOMAIN Live' = DOMAIN Live \ owned]_vars

\* C5's case: a remove_fastflags(names) that deleted a flag and left in the
\* live settings a flag that names lists and the tool had not applied.
C5_Witness ==
  /\ call.op = "remove_fastflags"
  /\ ~call.all
  /\ result.success
  /\ result.count > 0
  /\ \E k \in Range(call.names) : k \in DOMAIN Live

\* C6 as stated: a successful apply_fastflags(F), F not empty, leaves the live
\* settings equal to the previous ones overridden by F, records every key of F
\* in applied_flags with F's value, and reports |F| applied flags.
C6_ApplyMergesAndRecords ==
  [][(call'.op = "apply_fastflags" /\ DOMAIN call'.flags # {} /\ result'.success)
       => LET F == call'.flags
          IN /\ DOMAIN Live' = DOMAIN Live \cup DOMAIN F
             /\ \A k \in DOMAIN F : Live'[k] = F[k]
             /\ \A k \in DOMAIN Live \ DOMAIN F : Live'[k] = Live[k]
             /\ \A k \in DOMAIN F :
                  k \in DOMAIN Ledger'.applied_flags /\ Ledger'.applied_flags[k] = F[k]
             /\ result'.count = Cardinality(DOMAIN F)]_vars

\* C6 amended: the same, the keys of F being recorded in applied_flags when
\* the call reports no tracking warning (its ledger write succeeded).
C6_ApplyMergesAndRecordsUnlessWarned ==
  [][(call'.op = "apply_fastflags" /\ DOMAIN call'.flags # {} /\ result'.success)
       => LET F == call'.flags
          IN /\ DOMAIN Live' = DOMAIN Live \cup DOMAIN F
             /\ \A k \in DOMAIN F : Live'[k] = F[k]
             /\ \A k \in DOMAIN Live \ DOMAIN F : Live'[k] = Live[k]
             /\ result'.errors = <<>>
                  => \A k \in DOMAIN F :
                       k \in DOMAIN Ledger'.applied_flags /\ Ledger'.applied_flags[k] = F[k]
             /\ result'.count = Cardinality(DOMAIN F)]_vars

\* C6's case: a successful apply_fastflags without warning that overrode the
\* value a flag had and left another setting, not applied, as it was.
C6_Witness ==
  /\ call.op = "apply_fastflags"
  /\ result.success
  /\ result.errors = <<>>
  /\ DOMAIN call.flags # {}
  /\ \E k \in DOMAIN call.flags : k \in DOMAIN Ledger.backup /\ Ledger.backup[k] # call.flags[k]
  /\ \E k \in DOMAIN Live : k \notin DOMAIN call.flags /\ k \notin DOMAIN Ledger.applied_flags

\* C7: restore_original_settings over a ledger whose backup is not empty, its
\* writes succeeding, leaves the live settings equal to the backup and the
\* persisted ledger with applied_flags = {} and backup = {}.
C7_RestoreFromBackup ==
  [][(/\ call'.op = "restore_original_settings"
      /\ DOMAIN Ledger.backup # {}
      /\ AllWritesOk(io'))
       => /\ result'.success
          /\ ixp'.exists /\ Live' = Ledger.backup
          /\ tracking'.exists
          /\ Ledger'.applied_flags = EmptyMap
          /\ Ledger'.backup = EmptyMap]_vars

\* C7's case: a restore that succeeded without warning and wrote settings.
C7_Witness ==
  /\ call.op = "restore_original_settings"
  /\ result.success
  /\ result.errors = <<>>
  /\ DOMAIN Live # {}

\* C8: restore_original_settings over a ledger whose backup is empty returns
\* success = False with the no-backup error and changes neither file.
C8_RestoreWithoutBackup ==
  [][(call'.op = "restore_original_settings" /\ DOMAIN Ledger.backup = {})
       => /\ ~result'.success
          /\ result'.errors = <<NO_BACKUP_MESSAGE>>
          /\ ixp' = ixp
          /\ tracking' = tracking]_vars

\* C8's case: a restore refused for want of a backup while settings and
\* applied flags are there to lose.
C8_Witness ==
  /\ call.op = "restore_original_settings"
  /\ ~result.success
  /\ result.message = NO_BACKUP_MESSAGE
  /\ DOMAIN Ledger.applied_flags # {}
  /\ DOMAIN Live # {}

\* C9: on a first run with no settings file and no ledger file,
\* apply_fastflags({k: v}) succeeds, creates the settings file holding exactly
\* {k: v} and leaves the ledger with applied_flags = {k: v} and backup = {}.
C9_FreshApply ==
  (/\ Len(session) = 1
   /\ ~first.exists
   /\ Cardinality(DOMAIN session[1]) = 1)
    => /\ result.success
       /\ ixp.exists /\ Live = session[1]
       /\ tracking.exists
       /\ Ledger.applied_flags = session[1]
       /\ Ledger.backup = EmptyMap

\* C9's case: the one call made, on no settings file, with one flag.
C9_Witness ==
  /\ Len(session) = 1
  /\ ~first.exists
  /\ Cardinality(DOMAIN session[1]) = 1
  /\ call.op = "apply_fastflags"

\* The flag operations.
FlagOps ==
  {"apply_fastflags", "remove_fastflags", "restore_original_settings",
   "apply_skybox_fastflag", "remove_skybox_fastflag",
   "apply_no_arms_fastflag", "remove_no_arms_fastflag"}

\* C10: a flag operation writes the settings file before the ledger: the
\* ledger is written only after a settings write that succeeded; when the
\* settings write fails the persisted ledger is as it was before the call
\* and the result has success = False.
C10_SettingsBeforeLedger ==
  [][call'.op \in FlagOps
       => /\ \A i \in 1..Len(io') :
               io'[i].file = "ledger" => \E j \in 1..(i - 1) : io'[j] = W("settings", TRUE)
          /\ tracking' # tracking => (io' # <<>> /\ io'[1] = W("settings", TRUE))
          /\ (io' # <<>> /\ io'[1] = W("settings", FALSE))
               => (tracking' = tracking /\ ~result'.success)]_vars

\* C10's case: a named-fix operation whose settings write failed over a
\* ledger that holds applied flags.
C10_Witness ==
  /\ call.op = "apply_skybox_fastflag"
  /\ io = <<W("settings", FALSE)>>
  /\ ~result.success
  /\ tracking.exists
  /\ DOMAIN Ledger.applied_flags # {}

\* A call wrote the settings file and then had a ledger write fail.
LedgerWriteFailed(log) ==
  /\ log # <<>>
  /\ log[1] = W("settings", TRUE)
  /\ \E i \in 1..Len(log) : log[i] = W("ledger", FALSE)

\* C11: in every flag operation, when the settings write succeeds and a
\* ledger write fails, the result is a warning and not a failure:
\* success = True with a warning entry in errors.
C11_LedgerFailureIsWarning ==
  [][(call'.op \in FlagOps /\ LedgerWriteFailed(io'))
       => (result'.success /\ result'.errors # <<>>)]_vars

\* The named fix a removal operation is about, as the ledger records it.
FixOf(op, td) == IF op = "remove_skybox_fastflag" THEN td.skybox_fix ELSE td.no_arms_fix

\* C12: remove_skybox_fastflag and remove_no_arms_fastflag called while the
\* fix is not active return success = True with a message and change neither
\* the settings file nor the ledger.
C12_RemoveInactiveFixSucceeds ==
  [][(/\ call'.op \in {"remove_skybox_fastflag", "remove_no_arms_fastflag"}
      /\ ~(FixOf(call'.op, Ledger).present /\ FixOf(call'.op, Ledger).active))
       => /\ result'.success
          /\ result'.message # ""
          /\ ixp' = ixp
          /\ tracking' = tracking]_vars

\* The cache file the last call's hash named before the call, and the
\* replacement its second hash named.
Target == FindInCache(cache, call'.names[1])

Replacement == find_replacement_asset(assets, call'.names[2])

AssetWrites == {"swap_asset", "place_asset_in_cache"}

AssetOps == AssetWrites \cup {"restore_asset"}

\* C13: over any sequence of swap_asset, place_asset_in_cache and
\* restore_asset calls, the .cdbl_backup sibling of a cache file is written
\* only before the file's first overwrite, is never changed or deleted
\* afterwards, and holds the content the file had just before that overwrite.
C13_BackupWrittenOnce ==
  [][call'.op \in AssetOps
       => \A s \in Slots :
            /\ cache.backups[s] # NoFile => cache'.backups[s] = cache.backups[s]
            /\ cache'.backups[s] # cache.backups[s] => orig[s] = NoFile
            /\ orig'[s] # NoFile => cache'.backups[s] = orig'[s]]_vars

\* C13's case: a swap over a file already swapped: its backup was there, and
\* differs from what the file holds now.
C13_Witness ==
  /\ call.op = "swap_asset"
  /\ result.success
  /\ io = <<W("asset", TRUE)>>
  /\ \E s \in Slots : cache.backups[s] # NoFile /\ cache.files[s] # cache.backups[s]

\* C14: restore_asset(hash) on a cache file that successful swap_asset or
\* place_asset_in_cache calls have overwritten succeeds and leaves the file
\* with the content it had before the first of them; the backup stays, so
\* the same holds of every later restore.
C14_RestoreRoundTrip ==
  [][(call'.op = "restore_asset" /\ Target # NoSlot /\ orig[Target] # NoFile)
       => /\ result'.success
          /\ cache'.files[Target] = orig[Target]
          /\ cache'.backups[Target] = orig[Target]]_vars

\* C14's case: a restore that succeeded: the file named holds again the
\* content it had before its first overwrite, and the backup is there.
C14_Witness ==
  /\ call.op = "restore_asset"
  /\ result.success
  /\ \E s \in Slots :
       /\ Matches(s[2], call.names[1])
       /\ orig[s] # NoFile
       /\ cache.files[s] = orig[s]
       /\ cache.backups[s] = orig[s]

\* C15: restore_asset(hash) on a cache file without backup returns
\* success = False with the no-backup error and leaves the file as it is;
\* when the cache holds no file of that name, or there is no cache
\* directory, it returns success = False and changes nothing.
C15_RestoreWithoutBackup ==
  [][call'.op = "restore_asset"
       => /\ (Target # NoSlot /\ cache.backups[Target] = NoFile)
               => /\ ~result'.success
                  /\ result'.errors = <<NO_ASSET_BACKUP_MESSAGE>>
                  /\ cache' = cache
          /\ (Target = NoSlot \/ ~cache.exists)
               => (~result'.success /\ result'.errors # <<>> /\ cache' = cache)]_vars

\* C15's case: a restore refused on a file that is there, placed by the tool,
\* without backup.
C15_Witness ==
  /\ call.op = "restore_asset"
  /\ ~result.success
  /\ result.message = NO_ASSET_BACKUP_MESSAGE
  /\ \E s \in Slots : cache.files[s] # NoFile /\ Matches(s[2], call.names[1])

\* C16: when no file of the cache is named by the target hash (up to case),
\* swap_asset returns success = False with the original-not-found error and
\* changes nothing, and place_asset_in_cache succeeds, creating
\* cache_root/<target_hash> with the replacement's content and no backup;
\* when the file is there both make its backup if it has none, then
\* overwrite it with the replacement, and touch nothing else.
C16_StrictSwapLenientPlace ==
  [][(call'.op \in AssetWrites /\ cache.exists /\ Replacement # NoFile)
       => IF Target = NoSlot
          THEN IF call'.op = "swap_asset"
               THEN /\ ~result'.success
                    /\ result'.errors = <<"Original asset not found in Roblox cache">>
                    /\ cache' = cache
               ELSE /\ result'.success
                    /\ cache'.files = [cache.files EXCEPT ![<<WalkDirs[1], call'.names[1]>>] = Replacement]
                    /\ cache'.backups = cache.backups
          ELSE /\ result'.success
               /\ cache'.files = [cache.files EXCEPT ![Target] = Replacement]
               /\ cache'.backups =
                    [cache.backups EXCEPT ![Target] = IF @ = NoFile THEN cache.files[Target] ELSE @]]_vars

\* C16's case: place_asset_in_cache created the file under the cache root,
\* without backup.
C16_Witness ==
  /\ call.op = "place_asset_in_cache"
  /\ result.success
  /\ result.message = "Placed new asset in cache"
  /\ cache.files[<<WalkDirs[1], call.names[1]>>] # NoFile
  /\ cache.backups = NoFiles

\* C17: swap_asset and place_asset_in_cache check that the cache directory
\* exists, then that the replacement is found, then the original: without
\* cache directory, or without replacement in the extracted assets, they
\* return success = False with exactly one error and create or change no
\* file of the cache, no backup included.
C17_PreconditionOrder ==
  [][(call'.op \in AssetWrites /\ (~cache.exists \/ Replacement = NoFile))
       => /\ ~result'.success
          /\ result'.errors =
               IF ~cache.exists THEN <<"Roblox cache directory not found">>
               ELSE <<"Replacement asset not found in extracted assets">>
          /\ cache' = cache
          /\ io' = <<>>]_vars

\* C17's case: a swap refused for want of the replacement although the
\* original is in the cache, without backup.
C17_Witness ==
  /\ call.op = "swap_asset"
  /\ ~result.success
  /\ result.message = "Replacement asset not found in extracted assets"
  /\ \E s \in Slots :
       cache.files[s] # NoFile /\ Matches(s[2], call.names[1]) /\ cache.backups[s] = NoFile

BatchOps == {"apply_skybox_fix", "ToolsTab.apply_skybox_fix"}

\* A batch call got as far as its batch (its download, or its fast flag
\* applied first, did not fail).
BatchRan(r) == r.message \notin {"Failed to download required assets", "Error"}

\* C18 as stated: a skybox-fix batch of N pairs of which k are swapped
\* reports k swapped assets and N - k errors (every pair is attempted); it is
\* a full success when k = N, a partial success (success = True) when
\* 0 < k < N, and a failure if and only if k = 0.
C18_BatchClassification ==
  [][(call'.op \in BatchOps /\ BatchRan(result'))
       => LET N == Len(call'.names)
              k == result'.count
          IN /\ Len(result'.errors) = N - k
             /\ result'.success <=> k > 0
             /\ result'.message \in {"Skybox fix applied successfully", "Success"} <=> k = N
             /\ result'.message \in {"Skybox fix applied with assets swapped (failed)", "Partial Success"}
                  <=> (0 < k /\ k < N)]_vars

\* C18 amended: the same of a batch whose fast flags were applied; when
\* apply_skybox_fix (assets.py) fails to apply them after its batch it
\* returns success = False with the k swapped assets and N - k + 1 errors.
C18_BatchClassificationUnlessFlagsFail ==
  [][(call'.op \in BatchOps /\ BatchRan(result'))
       => LET N == Len(call'.names)
              k == result'.count
          IN IF result'.message = "Failed to apply skybox fix fastflags"
             THEN /\ ~result'.success
                  /\ Len(result'.errors) = N - k + 1
             ELSE /\ Len(result'.errors) = N - k
                  /\ result'.success <=> k > 0
                  /\ result'.message \in {"Skybox fix applied successfully", "Success"} <=> k = N
                  /\ result'.message \in {"Skybox fix applied with assets swapped (failed)", "Partial Success"}
                       <=> (0 < k /\ k < N)]_vars

\* C18's case: a batch of two pairs of which one was swapped after the other
\* had failed.
C18_Witness ==
  /\ call.op = "apply_skybox_fix"
  /\ Len(call.names) = 2
  /\ result.success
  /\ result.count = 1
  /\ Len(result.errors) = 1
  /\ find_replacement_asset(assets, call.names[1][2]) = NoFile

\* A call's settings write succeeded, or failed.
SettingsWritten(log) == \E i \in 1..Len(log) : log[i] = W("settings", TRUE)

SettingsWriteFailed(log) == \E i \in 1..Len(log) : log[i] = W("settings", FALSE)

\* The operations that may leave the settings file writable.
WritableOps == {"create_initial_backup", "ensure_backup_exists", "restore_ixp_settings_permissions"}

\* After a successful settings write of a flag operation the file is marked
\* read-only, and the write of apply_fastflags went through whether or not
\* the file was read-only before: the file holds the call's fast_flags.
ReadOnlyAfterWrite ==
  /\ (call'.op \in FlagOps /\ SettingsWritten(io')) => (ixp'.exists /\ ixp'.readonly)
  /\ (call'.op = "apply_fastflags" /\ SettingsWritten(io'))
       => \A k \in DOMAIN call'.flags : k \in DOMAIN ixp'.data /\ ixp'.data[k] = call'.flags[k]

\* C19: after every successful settings write made by a flag operation the
\* settings file is marked read-only, and the next flag operation still
\* overwrites it; a call that is neither create_initial_backup (alone or
\* through ensure_backup_exists) nor restore_ixp_settings_permissions leaves
\* the file writable only by leaving it as it was.
C19_ReadOnlyDiscipline ==
  [][/\ ReadOnlyAfterWrite
     /\ (ixp'.exists /\ ~ixp'.readonly) => (call'.op \in WritableOps \/ ixp' = ixp)]_vars

\* C19 as it holds: the same, for the calls whose settings write did not
\* fail. A flag operation whose settings write fails has cleared the
\* read-only attribute already and leaves the file writable.
C19_ReadOnlyDisciplineUnlessWriteFails ==
  [][/\ ReadOnlyAfterWrite
     /\ (ixp'.exists /\ ~ixp'.readonly /\ ~SettingsWriteFailed(io'))
          => (call'.op \in WritableOps \/ ixp' = ixp)]_vars

\* C19's case: apply_fastflags has overwritten the file an earlier apply had
\* left read-only (the ledger holds a flag this call did not pass).
C19_Witness ==
  /\ call.op = "apply_fastflags"
  /\ DOMAIN call.flags # {}
  /\ SettingsWritten(io)
  /\ ixp.readonly
  /\ \E k \in DOMAIN Ledger.applied_flags : k \notin DOMAIN call.flags

\* C20: after create_initial_backup returned success = True, or
\* ensure_backup_exists returned True, a restore_original_settings called
\* next succeeds and does not fail with "No backup found", whatever the
\* settings were before (an absent or empty settings file included).
C20_BackupThenRestore ==
  [][(/\ call.op \in {"create_initial_backup", "ensure_backup_exists"}
      /\ result.success
      /\ call'.op = "restore_original_settings")
       => (result'.success /\ result'.message # NO_BACKUP_MESSAGE)]_vars

(* ------------------------- crashes between writes ------------------------ *)

\* The interruption that comes after the ledger write.
Crash_AfterLedger(c, r) ==
  /\ ~faulted
  /\ r.io # <<>>
  /\ r.io[1] = W("settings", TRUE)
  /\ ixp' = r.ixp
  /\ tracking' = r.tracking
  /\ call' = c
  /\ result' = Res("crash", FALSE, 0, "", <<>>)
  /\ io' = <<W("settings", TRUE)>>
  /\ faulted' = TRUE

\* A flag operation interrupted after its settings write and before its
\* ledger write: r is what the operation does when it runs on, the settings
\* file is the one r wrote, the ledger is the one the call found, and nothing
\* is returned. A run holds at most one crash.
Crash(c, r) ==
  /\ ~faulted
  /\ r.io # <<>>
  /\ r.io[1] = W("settings", TRUE)
  /\ ixp' = r.ixp
  /\ tracking' = tracking
  /\ call' = c
  /\ result' = Res("crash", FALSE, 0, "", <<>>)
  /\ io' = <<W("settings", TRUE)>>
  /\ faulted' = TRUE

CrashInApplyFastflags ==
  \E F \in FlagInputs :
    Crash(Call("apply_fastflags", F, FALSE, <<>>), apply_fastflags(ixp, tracking, F, TRUE, TRUE))

CrashInRemoveFastflags ==
  \/ \E names \in NameInputs :
       Crash(Call("remove_fastflags", EmptyMap, FALSE, names),
             remove_fastflags(ixp, tracking, FALSE, names, TRUE, TRUE))
  \/ Crash(Call("remove_fastflags", EmptyMap, TRUE, <<>>),
           remove_fastflags(ixp, tracking, TRUE, <<>>, TRUE, TRUE))

CrashInRestoreOriginalSettings ==
  Crash(Call("restore_original_settings", EmptyMap, FALSE, <<>>),
        restore_original_settings(ixp, tracking, TRUE, TRUE))

CrashInApplySkyboxFastflag ==
  Crash(Call("apply_skybox_fastflag", EmptyMap, FALSE, <<>>),
        apply_skybox_fastflag(ixp, tracking, TRUE, TRUE))

CrashInRemoveSkyboxFastflag ==
  Crash(Call("remove_skybox_fastflag", EmptyMap, FALSE, <<>>),
        remove_skybox_fastflag(ixp, tracking, TRUE, TRUE))

\* The flag operations whose ledger write is their last step, every write
\* succeeding, with at most one of them interrupted between its two writes.
NextCrash ==
  \/ ApplyFastflags({TRUE}) /\ NoSession
  \/ RemoveFastflags({TRUE}) /\ NoSession
  \/ RemoveAllFastflags({TRUE}) /\ NoSession
  \/ RestoreOriginalSettings({TRUE}) /\ NoSession
  \/ ApplySkyboxFastflag({TRUE}) /\ NoSession
  \/ RemoveSkyboxFastflag({TRUE}) /\ NoSession
  \/ CrashInApplyFastflags /\ NoSession
  \/ CrashInRemoveFastflags /\ NoSession
  \/ CrashInRestoreOriginalSettings /\ NoSession
  \/ CrashInApplySkyboxFastflag /\ NoSession
  \/ CrashInRemoveSkyboxFastflag /\ NoSession

SpecCrash == Init /\ [][NextCrash]_vars

\* The operations that add flags to the settings file, and all five.
ApplyOps == {"apply_fastflags", "apply_skybox_fastflag"}

CrashOps == ApplyOps \cup {"remove_fastflags", "restore_original_settings", "remove_skybox_fastflag"}

is_skybox_fix_active(t) ==
  LET td == load_tracking_data(t)
  IN [active |-> td.skybox_fix.present /\ td.skybox_fix.active,
      flag_name |-> FlagApplied(td.skybox_fix)]

\* is_no_arms_fix_active(): the same about the no-arms fix.
is_no_arms_fix_active(t) ==
  LET td == load_tracking_data(t)
  IN [active |-> td.no_arms_fix.present /\ td.no_arms_fix.active,
      flag_name |-> FlagApplied(td.no_arms_fix)]

\* C25: after any sequence of flag operations whose writes all succeed,
\* whenever is_skybox_fix_active or is_no_arms_fix_active reports
\* active = True, the flag the fix recorded in flag_applied is present in the
\* live settings.
C25_ActiveFixFlagIsLive ==
  /\ is_skybox_fix_active(tracking).active => is_skybox_fix_active(tracking).flag_name \in DOMAIN Live
  /\ is_no_arms_fix_active(tracking).active => is_no_arms_fix_active(tracking).flag_name \in DOMAIN Live

\* C26: whenever the ledger records the no-arms fix as active and every
\* write succeeds, remove_no_arms_fastflag returns success = True and leaves
\* the fix inactive, whatever operations ran before it.
C26_ActiveFixCanBeRemoved ==
  [][(call'.op = "remove_no_arms_fastflag" /\ is_no_arms_fix_active(tracking).active)
       => (result'.success /\ ~is_no_arms_fix_active(tracking').active)]_vars

(* --------------------------- apply, then remove -------------------------- *)

\* The orders in which the keys of fast_flags F can be listed.
KeyLists(F) ==
  {names \in NameInputs :
     /\ Len(names) = Cardinality(DOMAIN F)
     /\ {names[i] : i \in 1..Len(names)} = DOMAIN F}

\* remove_fastflags(keys of F) right after the session's first
\* apply_fastflags(F), every write succeeding.
RemoveInSession ==
  /\ Len(session) = 1
  /\ call.op = "apply_fastflags"
  /\ \E names \in KeyLists(session[1]) :
       Do(Call("remove_fastflags", EmptyMap, FALSE, names),
          remove_fastflags(ixp, tracking, FALSE, names, TRUE, TRUE))
  /\ UNCHANGED <<first, session, cache, assets, orig, placed, others>>

NextRoundTrip ==
  \/ ApplyInSession
  \/ RemoveInSession

\* A first run on any settings the client left: apply_fastflags calls and,
\* after the first of them, the removal of the flags it applied.
SpecRoundTrip == InitSession /\ [][NextRoundTrip]_vars

\* The removal that followed apply_fastflags(F), F not empty, has returned.
RoundTripDone ==
  /\ call.op = "remove_fastflags"
  /\ Len(session) = 1
  /\ DOMAIN session[1] # {}

Unrestored == ~(call.op = "restore_original_settings" /\ result.success)

\* A first run on any settings the client left (recorded in first):
\* apply_fastflags and remove_fastflags calls, every write succeeding, up to
\* the first restore_original_settings that succeeds.
NextRestore ==
  \/ Unrestored /\ ApplyFastflags({TRUE}) /\ NoSession
  \/ Unrestored /\ RemoveFastflags({TRUE}) /\ NoSession
  \/ Unrestored /\ RemoveAllFastflags({TRUE}) /\ NoSession
  \/ Unrestored /\ RestoreOriginalSettings({TRUE}) /\ NoSession

SpecRestore == InitSession /\ [][NextRestore]_vars

\* C28: for any initial live settings S0 (an empty or absent settings file
\* included) and an empty ledger, after any sequence of successful
\* apply_fastflags and remove_fastflags calls, whenever
\* restore_original_settings returns success = True the live settings equal S0.
C28_RestoreGivesInitialSettings ==
  (call.op = "restore_original_settings" /\ result.success) => Live = load_ixp_settings(first)

\* C29: after any sequence of place_asset_in_cache, swap_asset and
\* restore_asset calls, every .cdbl_backup file holds content the client put
\* in the cache: a file that place_asset_in_cache created, and that is then
\* swapped or placed again, does not get a backup of the tool's content.
C29_BackupsAreClientContent ==
  \A s \in placed : cache.backups[s] = NoFile

(* ------------------- simultaneous callers of apply_fastflags ------------- *)

\* Two callers (the GUI's threads) of apply_fastflags.
Callers == {1, 2}

Other(p) == CHOOSE q \in Callers : q # p

Outside == [pc |-> "outside", fast_flags |-> EmptyMap, current_settings |-> EmptyMap,
            tracking_data |-> DefaultTracking, success |-> FALSE, overlapped |-> FALSE]

\* A caller is inside apply_fastflags.
Inside(q) == procs[q].pc \notin {"outside", "returned"}

\* A first run on the client's settings, both callers outside apply_fastflags.
InitCallers ==
  /\ ixp \in ClientIxp
  /\ tracking = AbsentTracking
  /\ call = NoCall
  /\ result = Res("none", FALSE, 0, "", <<>>)
  /\ io = <<>>
  /\ faulted = FALSE
  /\ first = ixp
  /\ session = <<>>
  /\ cache = NoCache
  /\ assets = NoAssets
  /\ orig = NoFiles
  /\ placed = {}
  /\ now = 0
  /\ apicache = <<>>
  /\ limiter = [last_request |-> 0]
  /\ threads = <<>>
  /\ returns = <<>>
  /\ procs = [p \in Callers |-> Outside]

\* The steps of the callers leave the rest of the state alone.
CallerStep ==
  UNCHANGED <<call, result, io, faulted, first, session, cache, assets, orig, placed,
              now, apicache, limiter, threads, returns>>

\* Caller p enters apply_fastflags(F), F not empty and disjoint from the
\* other caller's flags; a call that begins while the other caller is inside
\* overlaps it.
Enter(p) ==
  \E F \in FlagInputs :
    /\ procs[p].pc = "outside"
    /\ DOMAIN F # {}
    /\ DOMAIN F \cap DOMAIN procs[Other(p)].fast_flags = {}
    /\ procs' = [procs EXCEPT ![p].pc = "entered",
                              ![p].fast_flags = F,
                              ![p].overlapped = Inside(Other(p)),
                              ![Other(p)].overlapped = @ \/ Inside(Other(p))]
    /\ UNCHANGED <<ixp, tracking>>
    /\ CallerStep

\* current_settings = load_ixp_settings()
LoadSettings(p) ==
  /\ procs[p].pc = "entered"
  /\ procs' = [procs EXCEPT ![p].pc = "settings loaded",
                            ![p].current_settings = load_ixp_settings(ixp)]
  /\ UNCHANGED <<ixp, tracking>>
  /\ CallerStep

\* tracking_data = load_tracking_data(), then the snapshot and the loop over
\* fast_flags, which touch the caller's locals only.
LoadLedger(p) ==
  /\ procs[p].pc = "settings loaded"
  /\ procs' = [procs EXCEPT
       ![p].pc = "ledger loaded",
       ![p].tracking_data =
          [SnapshotIfNone(load_tracking_data(tracking), procs[p].current_settings)
             EXCEPT !.applied_flags = Merge(@, procs[p].fast_flags)],
       ![p].current_settings = Merge(@, procs[p].fast_flags)]
  /\ UNCHANGED <<ixp, tracking>>
  /\ CallerStep

\* save_ixp_settings(current_settings), the write succeeding.
SaveSettings(p) ==
  /\ procs[p].pc = "ledger loaded"
  /\ ixp' = save_ixp_settings(ixp, procs[p].current_settings, TRUE, TRUE)
  /\ procs' = [procs EXCEPT ![p].pc = "settings saved"]
  /\ UNCHANGED tracking
  /\ CallerStep

\* save_tracking_data(tracking_data), the write succeeding, and the return
\* of success = True.
SaveLedger(p) ==
  /\ procs[p].pc = "settings saved"
  /\ tracking' = save_tracking_data(tracking, procs[p].tracking_data, TRUE)
  /\ procs' = [procs EXCEPT ![p].pc = "returned", ![p].success = TRUE]
  /\ UNCHANGED ixp
  /\ CallerStep

NextCallers ==
  \/ \E p \in Callers : Enter(p)
  \/ \E p \in Callers : LoadSettings(p)
  \/ \E p \in Callers : LoadLedger(p)
  \/ \E p \in Callers : SaveSettings(p)
  \/ \E p \in Callers : SaveLedger(p)

SpecCallers == InitCallers /\ [][NextCallers]_vars

\* Both calls have returned success = True.
BothReturned == \A p \in Callers : procs[p].pc = "returned" /\ procs[p].success

\* The flags of caller p are in the live settings and in applied_flags.
Kept(p) ==
  \A k \in DOMAIN procs[p].fast_flags :
    /\ k \in DOMAIN Live /\ Live[k] = procs[p].fast_flags[k]
    /\ k \in DOMAIN Ledger.applied_flags /\ Ledger.applied_flags[k] = procs[p].fast_flags[k]

\* C23: the flag engine is not safe for simultaneous callers. When both
\* apply_fastflags calls, of disjoint flag sets, have returned success, the
\* settings file is the one caller's current_settings and the ledger one
\* caller's tracking_data (the last writer wins); the flags of both calls are
\* kept when the calls did not overlap, and the state in which one call's
\* flags are lost is reachable when they did (C23_Witness).
C23_LastWriterWins ==
  BothReturned =>
    /\ \E p \in Callers : Live = procs[p].current_settings
    /\ \E p \in Callers : Ledger.applied_flags = procs[p].tracking_data.applied_flags
    /\ (\A p \in Callers : ~procs[p].overlapped) => \A p \in Callers : Kept(p)

\* C23's case: both calls returned success = True and the flags of one of
\* them are missing from the live settings or from applied_flags.
C23_Witness ==
  /\ BothReturned
  /\ \E p \in Callers : ~Kept(p)

(* ------------------------- the API rate limiter -------------------------- *)

\* The clock stops at MaxTime ticks.
MaxTime == 6

\* api_rate_limiter = RateLimiter(min_interval=1.0): a second is two ticks.
min_interval == 2

\* The threads that call api_rate_limiter.wait_if_needed: the GUI thread
\* (get_sky_preview) and a download worker (make_api_request).
Threads == {"gui", "worker"}

Elsewhere == [pc |-> "elsewhere", wake |-> 0]

\* The limiter as constructed (_last_request = 0.0) at a time.time() far
\* from 0: no request yet, no thread in wait_if_needed.
InitLimiter ==
  /\ ixp = AbsentIxp
  /\ tracking = AbsentTracking
  /\ call = NoCall
  /\ result = Res("none", FALSE, 0, "", <<>>)
  /\ io = <<>>
  /\ faulted = FALSE
  /\ first = AbsentIxp
  /\ session = <<>>
  /\ cache = NoCache
  /\ assets = NoAssets
  /\ orig = NoFiles
  /\ placed = {}
  /\ now = min_interval
  /\ apicache = <<>>
  /\ limiter = [last_request |-> 0]
  /\ threads = [t \in Threads |-> Elsewhere]
  /\ returns = <<>>
  /\ procs = <<>>

\* The steps of the limiter's threads leave the rest of the state alone.
LimiterStep ==
  UNCHANGED <<ixp, tracking, call, result, io, faulted, first, session, cache, assets, orig, placed,
              apicache, procs>>

\* elapsed = time.time() - self._last_request; a thread that came too early
\* goes to sleep for min_interval - elapsed.
ReadElapsed(t) ==
  LET elapsed == now - limiter.last_request
  IN /\ threads[t].pc = "elsewhere"
     /\ threads' = [threads EXCEPT ![t] =
                      IF elapsed < min_interval
                      THEN [pc |-> "sleeping", wake |-> now + (min_interval - elapsed)]
                      ELSE [pc |-> "awake", wake |-> now]]
     /\ UNCHANGED <<now, limiter, returns>>
     /\ LimiterStep

\* time.sleep(wait_time) returns, not before wait_time has passed.
WakeUp(t) ==
  /\ threads[t].pc = "sleeping"
  /\ now >= threads[t].wake
  /\ threads' = [threads EXCEPT ![t].pc = "awake"]
  /\ UNCHANGED <<now, limiter, returns>>
  /\ LimiterStep

\* self._last_request = time.time(), and the return; returns keeps the times
\* of the last two returns.
SetLastRequest(t) ==
  /\ threads[t].pc = "awake"
  /\ limiter' = [limiter EXCEPT !.last_request = now]
  /\ returns' = IF Len(returns) < 2 THEN Append(returns, now) ELSE <<returns[2], now>>
  /\ threads' = [threads EXCEPT ![t] = Elsewhere]
  /\ UNCHANGED now
  /\ LimiterStep

\* Time passes.
Tick ==
  /\ now < MaxTime
  /\ now' = now + 1
  /\ UNCHANGED <<limiter, threads, returns>>
  /\ LimiterStep

NextLimiter ==
  \/ \E t \in Threads : ReadElapsed(t)
  \/ \E t \in Threads : WakeUp(t)
  \/ \E t \in Threads : SetLastRequest(t)
  \/ Tick

SpecLimiter == InitLimiter /\ [][NextLimiter]_vars

\* C24: any two consecutive returns of api_rate_limiter.wait_if_needed are
\* at least min_interval apart, also when the GUI thread and a download
\* worker call it concurrently.
C24_ReturnsAreSpaced ==
  Len(returns) = 2 => returns[2] - returns[1] >= min_interval

(* ----------------------------- the API cache ----------------------------- *)

\* self._max_size
max_size == 100

\* The number of oldest entries a full cache drops ([:10]).
OldestTaken == 10

\* APICache(default_ttl=...) of the modelled cache, in ticks.
default_ttl == 2

\* ttl=None
NoTtl == -1

\* The ttl arguments of set: None, less than the default, more than it.
Ttls == {NoTtl, 1, 3}

\* An entry of _cache: the value and time.time() of the set that stored it
\* under key.  cache_ttl is the local of that set (ttl, or the default for
\* None), which set computes and does not store: get cannot read it.
Entry(key, value, timestamp, cache_ttl) ==
  [key |-> key, value |-> value, timestamp |-> timestamp, cache_ttl |-> cache_ttl]

\* The position of key in the entries, 0 when it is not there.
IndexOf(entries, key) ==
  IF \E i \in 1..Len(entries) : entries[i].key = key
  THEN CHOOSE i \in 1..Len(entries) : entries[i].key = key
  ELSE 0

\* The entries without those of the keys.
Without(entries, keys) ==
  LET Stays(e) == e.key \notin keys
  IN SelectSeq(entries, Stays)

\* get(key) at time t: the cache after it and the value returned ("None"
\* for None).
APICache_get(entries, key, t) ==
  LET i == IndexOf(entries, key)
  IN IF i = 0 THEN [cache |-> entries, hit |-> FALSE, value |-> "None"]
     ELSE IF t - entries[i].timestamp > default_ttl
     THEN [cache |-> Without(entries, {key}), hit |-> FALSE, value |-> "None"]
     ELSE [cache |-> entries, hit |-> TRUE, value |-> entries[i].value]

\* _cleanup_expired() at time t.
cleanup_expired(entries, t) ==
  LET Stays(e) == ~(t - e.timestamp > default_ttl)
  IN SelectSeq(entries, Stays)

\* oldest_keys that takes no key.
RECURSIVE OldestKeys_None(_, _)
OldestKeys_None(entries, n) == {}

\* sorted(keys, key=timestamp)[:n]: the sort is stable, entries of one
\* timestamp are taken in the order of insertion.
RECURSIVE OldestKeys(_, _)
OldestKeys(entries, n) ==
  IF n = 0 \/ entries = <<>> THEN {}
  ELSE LET i == CHOOSE j \in 1..Len(entries) :
                  /\ \A k \in 1..Len(entries) : entries[j].timestamp <= entries[k].timestamp
                  /\ \A k \in 1..(j - 1) : entries[k].timestamp > entries[j].timestamp
       IN {entries[i].key} \cup OldestKeys(Without(entries, {entries[i].key}), n - 1)

\* set(key, value, ttl) at time t.
APICache_set(entries, key, value, ttl, t) ==
  LET c1 == IF Len(entries) >= max_size THEN cleanup_expired(entries, t) ELSE entries
      c2 == IF Len(c1) >= max_size THEN Without(c1, OldestKeys(c1, OldestTaken)) ELSE c1
      cache_ttl == IF ttl # NoTtl THEN ttl ELSE default_ttl
      i == IndexOf(c2, key)
  IN IF i = 0 THEN Append(c2, Entry(key, value, t, cache_ttl))
     ELSE [c2 EXCEPT ![i] = Entry(key, value, t, cache_ttl)]

\* clear()
APICache_clear(entries) == <<>>

\* The keys the calls use: two of the first entries of a filled cache, two
\* that it does not hold.
ApiKeys == {2, 3, 101, 102}

\* A cache that n sets have filled, the even keys at time 0, the odd ones at
\* time 1.
Filled(n) == [i \in 1..n |-> Entry(i, "old", i % 2, default_ttl)]

\* The steps of the cache leave the rest of the state alone.
ApiStep ==
  UNCHANGED <<ixp, tracking, io, faulted, first, session, cache, assets, orig, placed,
              limiter, threads, returns, procs>>

ApiSet(keys, ttls) ==
  \E key \in keys, ttl \in ttls :
    /\ apicache' = APICache_set(apicache, key, "v", ttl, now)
    /\ call' = Call("APICache.set", EmptyMap, FALSE, <<key, ttl>>)
    /\ result' = Res("APICache.set", TRUE, 0, "None", <<>>)
    /\ UNCHANGED now
    /\ ApiStep

ApiGet(keys) ==
  \E key \in keys :
    LET r == APICache_get(apicache, key, now)
    IN /\ apicache' = r.cache
       /\ call' = Call("APICache.get", EmptyMap, FALSE, <<key>>)
       /\ result' = Res("APICache.get", r.hit, 0, r.value, <<>>)
       /\ UNCHANGED now
       /\ ApiStep

ApiClear ==
  /\ apicache' = APICache_clear(apicache)
  /\ call' = Call("APICache.clear", EmptyMap, FALSE, <<>>)
  /\ result' = Res("APICache.clear", TRUE, 0, "None", <<>>)
  /\ UNCHANGED now
  /\ ApiStep

\* Time passes for the cache.
ApiTick ==
  /\ now < MaxTime
  /\ now' = now + 1
  /\ UNCHANGED <<apicache, call, result>>
  /\ ApiStep

\* The cache holding the entries e at time t.
InitApi(e, t) ==
  /\ ixp = AbsentIxp
  /\ tracking = AbsentTracking
  /\ call = NoCall
  /\ result = Res("none", FALSE, 0, "", <<>>)
  /\ io = <<>>
  /\ faulted = FALSE
  /\ first = AbsentIxp
  /\ session = <<>>
  /\ cache = NoCache
  /\ assets = NoAssets
  /\ orig = NoFiles
  /\ placed = {}
  /\ now = t
  /\ apicache = e
  /\ limiter = [last_request |-> 0]
  /\ threads = <<>>
  /\ returns = <<>>
  /\ procs = <<>>

\* An empty cache: set with any ttl, get and clear on two keys.
InitApiCache == InitApi(<<>>, 0)

NextApiCache ==
  \/ ApiSet({2, 3}, Ttls)
  \/ ApiGet({2, 3})
  \/ ApiClear
  \/ ApiTick

SpecApiCache == InitApiCache /\ [][NextApiCache]_vars

\* C21: an entry stored with set(key, value, ttl=T) lives for T seconds:
\* get(key) returns the value while the entry's age is at most T and None
\* once its age exceeds T, for any T; with ttl=None the default TTL applies.
C21_EntryLivesForItsTtl ==
  [][(call'.op = "APICache.get" /\ IndexOf(apicache, call'.names[1]) # 0)
       => LET e == apicache[IndexOf(apicache, call'.names[1])]
          IN /\ now - e.timestamp <= e.cache_ttl => (result'.success /\ result'.message = e.value)
             /\ now - e.timestamp > e.cache_ttl => (~result'.success /\ result'.message = "None")]_vars

\* A cache that 99 or 100 sets have filled, at time 1.
InitApiCacheFull == \E n \in {max_size - 1, max_size} : InitApi(Filled(n), 1)

\* set with the default ttl, get and clear, on keys the cache holds and on
\* new ones.
NextApiCacheFull ==
  \/ ApiSet({2, 101}, {NoTtl})
  \/ ApiGet({3, 101})
  \/ ApiClear
  \/ ApiTick

SpecApiCacheFull == InitApiCacheFull /\ [][NextApiCacheFull]_vars

\* The keys stored in the entries.
KeysOf(entries) == {entries[i].key : i \in 1..Len(entries)}

\* The positions of the entries that have not expired at time t.
Unexpired(entries, t) == {i \in 1..Len(entries) : t - entries[i].timestamp <= default_ttl}

\* C30: after any sequence of set, get and clear calls the number of stored
\* entries never exceeds _max_size (100). A set that finds the cache full
\* leaves no expired entry in it and, when the unexpired entries alone fill
\* it, drops 10 of them (its own key's entry counted, which it stores again),
\* none younger than an entry it keeps.
C30_SizeNeverExceedsMax ==
  [][/\ Len(apicache') <= max_size
     /\ (call'.op = "APICache.set" /\ now' = now /\ Len(apicache) >= max_size)
          => LET key == call'.names[1]
                 live == Unexpired(apicache, now)
                 kept == {i \in live : apicache[i].key # key /\ apicache[i].key \in KeysOf(apicache')}
                 gone == {i \in live : apicache[i].key # key /\ apicache[i].key \notin KeysOf(apicache')}
                 own == {i \in live : apicache[i].key = key}
             IN /\ KeysOf(apicache') \subseteq {apicache[i].key : i \in live} \cup {key}
                /\ Cardinality(live) < max_size => gone = {}
                /\ Cardinality(live) >= max_size =>
                     /\ \A i \in gone, j \in kept : apicache[i].timestamp <= apicache[j].timestamp
                     /\ \/ Cardinality(gone) = OldestTaken
                        \/ /\ Cardinality(gone) = OldestTaken - 1
                           /\ \A i \in own, j \in kept : apicache[i].timestamp <= apicache[j].timestamp]_vars

\* C30's case: a set on a new key found 100 unexpired entries and dropped
\* the 10 oldest (key 2, stored at time 0, is gone; key 3, stored at time 1,
\* is kept).
C30_Witness ==
  /\ call.op = "APICache.set"
  /\ Len(apicache) = max_size - OldestTaken + 1
  /\ IndexOf(apicache, 2) = 0
  /\ IndexOf(apicache, 3) # 0
  /\ IndexOf(apicache, 101) # 0

====
